---- MODULE Spec2Model ----
(***************************************************************************)
(* Model of the podcast generation pipeline of cf_ai_PodAI.                *)
(*                                                                         *)
(* Two entry points run the pipeline against one relational store (D1,     *)
(* table podcasts) and one object store (R2 bucket):                       *)
(*   - generatePodcastSync   (index worker, POST /generate)                *)
(*   - PodcastWorkflow.run   (step-durable workflow)                       *)
(* Every await on a collaborator (D1, fetch, Workers AI, ElevenLabs, R2)   *)
(* is one atomic action whose outcome is chosen nondeterministically;      *)
(* the code between two awaits is local to the request and is part of the  *)
(* action that follows the await.                                          *)
(*                                                                         *)
(* Strings are sequences of character codes.  Page text and scripts are    *)
(* abstracted to their length and the positions of their '.' characters,   *)
(* which is all the pipeline looks at.                                     *)
(***************************************************************************)
EXTENDS Integers, Sequences, FiniteSets, TLC

(***************************************************************************)
(* Bounds of the model                                                     *)
(***************************************************************************)
\* number of generate requests that may be in flight together
NumRequests == 2

Reqs == 1..NumRequests

(***************************************************************************)
(* Character codes (String.prototype.charCodeAt)                           *)
(***************************************************************************)
ChSpace == 32
ChHash == 35
ChHyphen == 45
ChDot == 46
ChSlash == 47
ChColon == 58
ChQuestion == 63
ChUnderscore == 95

IsUpper(c) == c >= 65 /\ c <= 90
IsLower(c) == c >= 97 /\ c <= 122
IsDigit(c) == c >= 48 /\ c <= 57
ToUpperCh(c) == IF IsLower(c) THEN c - 32 ELSE c
ToLowerCh(c) == IF IsUpper(c) THEN c + 32 ELSE c

\* "Article"
TitleFallback == <<65, 114, 116, 105, 99, 108, 101>>

\* "http://a.co/my-Aa"
UrlA == <<104, 116, 116, 112, 58, 47, 47, 97, 46, 99, 111, 47, 109, 121, 45, 65, 97>>
\* "http://a.co/my-BB"  (same 32-bit hash as UrlA: "Aa" and "BB" collide)
UrlB == <<104, 116, 116, 112, 58, 47, 47, 97, 46, 99, 111, 47, 109, 121, 45, 66, 66>>
\* "http://a.co/my-Cc"
UrlC == <<104, 116, 116, 112, 58, 47, 47, 97, 46, 99, 111, 47, 109, 121, 45, 67, 99>>
\* "not a url"
UrlBad == <<110, 111, 116, 32, 97, 32, 117, 114, 108>>

\* the urls callers send
Urls == {UrlA, UrlB, UrlC, UrlBad}

\* the urls workflow events carry in event.params
EventUrls == {UrlA, UrlBad}

\* the caller of request r: the first is not signed in (userId || 'anonymous')
OwnerOf(r) == IF r = 1 THEN "anonymous" ELSE "user"

Origin == "https://worker.example"

\* F applied to the value of x; x is evaluated once, however often F uses it
WithValue(F(_), x) == CHOOSE y \in {F(v) : v \in {x}} : TRUE

(***************************************************************************)
(* generateCacheKey: 32-bit string hash, |hash| printed in base 36.        *)
(* A 32-bit word is kept as two 16-bit limbs <<hi, lo>>.                   *)
(***************************************************************************)
Limb == 65536

\* hash = ((hash << 5) - hash) + char; hash = hash & hash   (i.e. 31*hash + char mod 2^32)
HashStep(h, c) ==
    WithValue(LAMBDA w :
                LET lo == w[2] * 31 + c
                    hi == w[1] * 31 + (lo \div Limb)
                IN  <<hi % Limb, lo % Limb>>,
              h)

RECURSIVE HashFrom(_, _, _)
HashFrom(url, i, h) ==
    IF i > Len(url) THEN h ELSE HashFrom(url, i + 1, HashStep(h, url[i]))

\* Math.abs of the signed 32-bit value held in the limbs
AbsWord(h) ==
    WithValue(LAMBDA w :
                IF w[1] < 32768 THEN w
                ELSE <<(Limb - 1 - w[1]) + (IF w[2] = 0 THEN 1 ELSE 0), (Limb - w[2]) % Limb>>,
              h)

\* Number.prototype.toString(36): most significant digit first, digits 0..35
RECURSIVE ToBase36(_)
ToBase36(word) ==
    WithValue(LAMBDA w :
                LET qhi == w[1] \div 36
                    mid == (w[1] % 36) * Limb + w[2]
                    qlo == mid \div 36
                    d   == mid % 36
                IN  IF qhi = 0 /\ qlo = 0 THEN <<d>>
                    ELSE Append(ToBase36(<<qhi, qlo>>), d),
              word)

generateCacheKey(url) == ToBase36(AbsWord(HashFrom(url, 1, <<0, 0>>)))

\* `podcast_${generateCacheKey(url)}.mp3`
AudioFileName(url) == <<"podcast_", generateCacheKey(url), ".mp3">>

(***************************************************************************)
(* String helpers over sequences of character codes                        *)
(***************************************************************************)
IsSpaceCh(c) == c \in {9, 10, 11, 12, 13, 32}

\* first index >= from holding one of the characters of cs, 0 when absent
IndexOfAny(s, cs, from) ==
    IF \E i \in from..Len(s) : s[i] \in cs
    THEN CHOOSE i \in from..Len(s) : s[i] \in cs /\ \A j \in from..(i - 1) : s[j] \notin cs
    ELSE 0

\* String.prototype.indexOf(c, from), 1-based, 0 when absent
IndexOfCh(s, c, from) == IndexOfAny(s, {c}, from)

\* String.prototype.lastIndexOf(c), 1-based, 0 when absent
LastIndexOfCh(s, c, from) ==
    IF \E i \in 1..from : s[i] = c
    THEN CHOOSE i \in 1..from : s[i] = c /\ \A j \in (i + 1)..from : s[j] # c
    ELSE 0

\* the k-th smallest member of a set of numbers
NthOf(S, k) == CHOOSE i \in S : Cardinality({j \in S : j <= i}) = k

\* s.split(c).filter(segment => segment.length > 0): the segments from index i
\* on, cur being the part of the current segment before i
RECURSIVE SplitNonEmpty(_, _, _, _)
SplitNonEmpty(s, c, i, cur) ==
    WithValue(LAMBDA stop :
        LET segment == cur \o SubSeq(s, i, (IF stop = 0 THEN Len(s) ELSE stop - 1))
            here == IF segment = <<>> THEN <<>> ELSE <<segment>>
        IN  IF stop = 0 THEN here ELSE here \o SplitNonEmpty(s, c, stop + 1, <<>>),
      IndexOfAny(s, {c}, i))

\* s.trim()
RECURSIVE TrimLeft(_)
TrimLeft(s) == IF s # <<>> /\ IsSpaceCh(Head(s)) THEN TrimLeft(Tail(s)) ELSE s

RECURSIVE TrimRight(_)
TrimRight(s) ==
    IF s # <<>> /\ IsSpaceCh(s[Len(s)]) THEN TrimRight(SubSeq(s, 1, Len(s) - 1)) ELSE s

Trim(s) == WithValue(TrimRight, WithValue(TrimLeft, s))

\* s.replace(/\s+/g, ' ') from index i on: of a run of whitespace the first
\* character is kept, as a space
CollapseSpaces(s, i) ==
    WithValue(LAMBDA kept :
        <<>> \o [k \in 1..Cardinality(kept) |->
                    IF IsSpaceCh(s[NthOf(kept, k)]) THEN ChSpace ELSE s[NthOf(kept, k)]],
      {j \in i..Len(s) : ~(IsSpaceCh(s[j]) /\ j > 1 /\ IsSpaceCh(s[j - 1]))})

\* does s hold the characters of pat from index i on
StartsWithAt(s, pat, i) ==
    /\ i + Len(pat) - 1 <= Len(s)
    /\ \A k \in 1..Len(pat) : s[i + k - 1] = pat[k]

\* s.replace(pat, '') with a string pattern: the first occurrence only
RECURSIVE RemoveFirst(_, _, _)
RemoveFirst(s, pat, i) ==
    IF i + Len(pat) - 1 > Len(s) THEN s
    ELSE IF StartsWithAt(s, pat, i)
         THEN SubSeq(s, 1, i - 1) \o SubSeq(s, i + Len(pat), Len(s))
         ELSE RemoveFirst(s, pat, i + 1)

(***************************************************************************)
(* new URL(url) for absolute hierarchical URLs scheme://host/path?query    *)
(* #fragment; any other string of the universe has no scheme and does not  *)
(* parse (TypeError).                                                      *)
(***************************************************************************)
IsSchemeCh(c) == IsUpper(c) \/ IsLower(c) \/ IsDigit(c) \/ c \in {43, 45, 46}

ParseUrl(url) ==
    WithValue(LAMBDA colon :
    WithValue(LAMBDA hostEnd :
    WithValue(LAMBDA host :
        LET schemeOk == /\ colon > 1
                        /\ IsUpper(url[1]) \/ IsLower(url[1])
                        /\ \A k \in 1..(colon - 1) : IsSchemeCh(url[k])
            slashes == schemeOk /\ StartsWithAt(url, <<ChSlash, ChSlash>>, colon + 1)
            pathEnd == IF hostEnd = 0 THEN 0
                       ELSE IndexOfAny(url, {ChQuestion, ChHash}, hostEnd)
            path    == IF hostEnd = 0 \/ url[hostEnd] # ChSlash THEN <<ChSlash>>
                       ELSE SubSeq(url, hostEnd, IF pathEnd = 0 THEN Len(url) ELSE pathEnd - 1)
        IN  IF slashes /\ host # <<>> /\ \A k \in 1..Len(host) : ~IsSpaceCh(host[k])
            THEN [ok |-> TRUE,
                  hostname |-> <<>> \o [k \in 1..Len(host) |-> ToLowerCh(host[k])],
                  pathname |-> path]
            ELSE [ok |-> FALSE, hostname |-> <<>>, pathname |-> <<>>],
      SubSeq(url, colon + 3, IF hostEnd = 0 THEN Len(url) ELSE hostEnd - 1)),
      IndexOfAny(url, {ChSlash, ChQuestion, ChHash}, colon + 3)),
      IndexOfCh(url, ChColon, 1))

\* variant: the segment is kept with its extension
StripExtensionNever(s) == s

\* titleSegment.replace(/\.[^.]+$/, '')
StripExtension(s) ==
    LET k == LastIndexOfCh(s, ChDot, Len(s))
    IN  IF k > 0 /\ k < Len(s) THEN SubSeq(s, 1, k - 1) ELSE s

\* .replace(/-/g, ' ').replace(/_/g, ' ')
DashesToSpaces(s) ==
    <<>> \o [k \in 1..Len(s) |-> IF s[k] \in {ChHyphen, ChUnderscore} THEN ChSpace ELSE s[k]]

\* split(' ') / charAt(0).toUpperCase() + slice(1).toLowerCase() / join(' ')
CapitalizeWords(s) ==
    <<>> \o [k \in 1..Len(s) |->
                IF k = 1 \/ s[k - 1] = ChSpace THEN ToUpperCh(s[k]) ELSE ToLowerCh(s[k])]

\* "www."
WwwDot == <<119, 119, 119, 46>>

MaxTitleLen == 100
MinTitleLen == 3

extractTitle(url) ==
    WithValue(LAMBDA parsed :
    WithValue(LAMBDA pathSegments :
    WithValue(LAMBDA titleSegment :
    WithValue(LAMBDA words :
    WithValue(LAMBDA cleaned :
    WithValue(LAMBDA title :
        IF ~parsed.ok THEN TitleFallback
        ELSE IF Len(title) > MaxTitleLen THEN Trim(SubSeq(title, 1, MaxTitleLen))
        ELSE title,
      IF Len(cleaned) < MinTitleLen THEN TitleFallback ELSE cleaned),
      Trim(CollapseSpaces(words, 1))),
      WithValue(CapitalizeWords,
                WithValue(DashesToSpaces, WithValue(StripExtension, titleSegment)))),
      IF Len(pathSegments) = 0
      THEN RemoveFirst(parsed.hostname, WwwDot, 1)
      ELSE pathSegments[Len(pathSegments)]),
      SplitNonEmpty(parsed.pathname, ChSlash, 1, <<>>)),
      ParseUrl(url))

(***************************************************************************)
(* Text: a string abstracted to its length and the 0-based positions of    *)
(* its '.' characters.                                                     *)
(***************************************************************************)
NoText == [len |-> 0, periods |-> {}]

MaxOf(S) == CHOOSE m \in S : \A x \in S : x <= m

\* text.substring(0, n)
Substring0(text, n) ==
    IF n >= text.len THEN text
    ELSE [len |-> n, periods |-> {p \in text.periods : p < n}]

\* text.lastIndexOf('.')
LastPeriod(text) == IF text.periods = {} THEN -1 ELSE MaxOf(text.periods)

\* variant: a period right at the boundary index is taken as the end as well
TruncateAtSentenceInclusive(text, limit, boundary) ==
    IF text.len > limit
    THEN LET cut == Substring0(text, limit)
         IN  IF LastPeriod(cut) >= boundary THEN Substring0(cut, LastPeriod(cut) + 1) ELSE cut
    ELSE text

\* if (t.length > limit) { t = t.substring(0, limit); if (lastPeriod > boundary) t = t.substring(0, lastPeriod + 1) }
TruncateAtSentence(text, limit, boundary) ==
    IF text.len > limit
    THEN LET cut == Substring0(text, limit)
         IN  IF LastPeriod(cut) > boundary THEN Substring0(cut, LastPeriod(cut) + 1) ELSE cut
    ELSE text

ContentLimit == 1000
ContentBoundary == 800
MinContentLength == 100

(***************************************************************************)
(* Collaborator responses                                                  *)
(***************************************************************************)
\* fetch(url) of the article page: the request rejects, answers with a
\* non-2xx status, or delivers markup of htmlLen characters whose cleaned
\* text (tags, scripts, styles, comments and entities removed, whitespace
\* collapsed and trimmed) is text
PageResponses ==
    { [kind |-> "network", htmlLen |-> 0, text |-> NoText],
      [kind |-> "status",  htmlLen |-> 0, text |-> NoText],
      [kind |-> "body",    htmlLen |-> 50,   text |-> [len |-> 40, periods |-> {}]],
      [kind |-> "body",    htmlLen |-> 400,  text |-> [len |-> 60, periods |-> {30}]],
      [kind |-> "body",    htmlLen |-> 3000, text |-> [len |-> 1200, periods |-> {850, 1100}]] }

\* fetch(url, ...) of a string that is no absolute URL rejects with a TypeError
\* before any request is sent
FetchResponses(parsesAsUrl) ==
    IF parsesAsUrl THEN PageResponses ELSE {r \in PageResponses : r.kind = "network"}

\* ai.run(model, ...): raises, answers in an unknown envelope, or answers
\* with text whose trimmed form has raw characters of which the first
\* preamble characters are a "Here's ...:" / "Sure, " preamble
AiResponses ==
    { [kind |-> "raise", raw |-> 0, preamble |-> 0],
      [kind |-> "shape", raw |-> 0, preamble |-> 0],
      [kind |-> "text",  raw |-> 55, preamble |-> 6],
      [kind |-> "text",  raw |-> 56, preamble |-> 6] }

\* POST to the text-to-speech endpoint: rejects, non-2xx, or audio bytes
TtsResponses ==
    { [kind |-> "network", byteLength |-> 0],
      [kind |-> "status",  byteLength |-> 0],
      [kind |-> "audio",   byteLength |-> 0],
      [kind |-> "audio",   byteLength |-> 10000] }

\* an R2 put stores the object or raises
PutOutcomes == {"ok", "raise"}

\* the bindings of the deployment: all present, or one of them missing
Bindings == {"db", "ai", "bucket", "ttsKey"}
EnvConfigs ==
    {e \in [Bindings -> BOOLEAN] : Cardinality({b \in Bindings : ~e[b]}) <= 1}

(***************************************************************************)
(* scrapeWebpage                                                           *)
(***************************************************************************)
\* variant: a text of exactly the minimum length is rejected
scrapeWebpageExclusive(resp) ==
    IF resp.kind = "network"
    THEN [ok |-> FALSE, text |-> NoText, error |-> "fetch failed"]
    ELSE IF resp.kind = "status"
    THEN [ok |-> FALSE, text |-> NoText, error |-> "Failed to fetch webpage"]
    ELSE IF resp.htmlLen < MinContentLength
    THEN [ok |-> FALSE, text |-> NoText,
          error |-> "Webpage returned empty or insufficient content"]
    ELSE LET textContent == TruncateAtSentence(resp.text, ContentLimit, ContentBoundary)
         IN  IF textContent.len <= MinContentLength
             THEN [ok |-> FALSE, text |-> NoText,
                   error |-> "Not enough meaningful content found on the page"]
             ELSE [ok |-> TRUE, text |-> textContent, error |-> ""]

scrapeWebpage(resp) ==
    IF resp.kind = "network"
    THEN [ok |-> FALSE, text |-> NoText, error |-> "fetch failed"]
    ELSE IF resp.kind = "status"
    THEN [ok |-> FALSE, text |-> NoText, error |-> "Failed to fetch webpage"]
    ELSE IF resp.htmlLen < MinContentLength
    THEN [ok |-> FALSE, text |-> NoText,
          error |-> "Webpage returned empty or insufficient content"]
    ELSE LET textContent == TruncateAtSentence(resp.text, ContentLimit, ContentBoundary)
         IN  IF textContent.len < MinContentLength
             THEN [ok |-> FALSE, text |-> NoText,
                   error |-> "Not enough meaningful content found on the page"]
             ELSE [ok |-> TRUE, text |-> textContent, error |-> ""]

(***************************************************************************)
(* summarizeArticle                                                        *)
(***************************************************************************)
MinScriptLength == 50

\* variant: a script of any length is returned
summarizeArticleAcceptingShort(content, resp) ==
    IF content.len < MinContentLength
    THEN [ok |-> FALSE, script |-> NoText,
          error |-> "Content too short for summarization (minimum 100 characters)"]
    ELSE IF resp.kind = "raise"
    THEN [ok |-> FALSE, script |-> NoText, error |-> "ai.run failed"]
    ELSE IF resp.kind = "shape" \/ resp.raw = 0
    THEN [ok |-> FALSE, script |-> NoText,
          error |-> "Invalid response format from AI model"]
    ELSE [ok |-> TRUE, script |-> [len |-> resp.raw - resp.preamble, periods |-> {}], error |-> ""]

summarizeArticle(content, resp) ==
    IF content.len < MinContentLength
    THEN [ok |-> FALSE, script |-> NoText,
          error |-> "Content too short for summarization (minimum 100 characters)"]
    ELSE IF resp.kind = "raise"
    THEN [ok |-> FALSE, script |-> NoText, error |-> "ai.run failed"]
    ELSE IF resp.kind = "shape" \/ resp.raw = 0
    THEN [ok |-> FALSE, script |-> NoText,
          error |-> "Invalid response format from AI model"]
    ELSE LET summary == [len |-> resp.raw - resp.preamble, periods |-> {}]
         IN  IF summary.len < MinScriptLength
             THEN [ok |-> FALSE, script |-> NoText, error |-> "AI generated insufficient content"]
             ELSE [ok |-> TRUE, script |-> summary, error |-> ""]

(***************************************************************************)
(* generateAudio (the same text in index worker and workflow class)        *)
(***************************************************************************)
NoAudio == [byteLength |-> 0]

\* the checks made before the text-to-speech request is sent
generateAudioPrecheck(text, e) ==
    IF ~e.ttsKey THEN "ElevenLabs API key not configured"
    ELSE IF text.len = 0 THEN "Cannot generate audio from empty text"
    ELSE ""

\* the handling of the text-to-speech response
generateAudio(resp) ==
    IF resp.kind = "network"
    THEN [ok |-> FALSE, audio |-> NoAudio, error |-> "fetch failed"]
    ELSE IF resp.kind = "status"
    THEN [ok |-> FALSE, audio |-> NoAudio, error |-> "ElevenLabs API error"]
    ELSE IF resp.byteLength = 0
    THEN [ok |-> FALSE, audio |-> NoAudio,
          error |-> "ElevenLabs returned empty audio"]
    ELSE [ok |-> TRUE, audio |-> [byteLength |-> resp.byteLength], error |-> ""]

(***************************************************************************)
(* Relational store: table podcasts                                        *)
(***************************************************************************)
\* variant: cache_key is declared without UNIQUE
UniqueUrlOnly == {"url"}

\* the UNIQUE columns of CREATE TABLE podcasts
UniqueColumns == {"url", "cache_key"}

NoRow ==
    [id |-> 0, url |-> <<>>, title |-> <<>>, summary |-> NoText, audio_file_name |-> <<>>,
     audio_url |-> <<>>, user_id |-> "", status |-> "", content_length |-> 0,
     summary_length |-> 0, audio_size_bytes |-> 0, cache_key |-> <<>>]

\* variant: INSERT OR REPLACE, a row with the same url or cache key is overwritten
savePodcastReplacing(rows, data, up) ==
    IF ~up
    THEN [rows |-> rows, success |-> FALSE, error |-> "D1_ERROR"]
    ELSE IF \E i \in 1..Len(rows) : \E col \in UniqueColumns : rows[i][col] = data[col]
    THEN [rows |-> [i \in 1..Len(rows) |->
                      IF \E col \in UniqueColumns : rows[i][col] = data[col]
                      THEN [data EXCEPT !.id = rows[i].id]
                      ELSE rows[i]],
          success |-> TRUE, error |-> ""]
    ELSE [rows |-> Append(rows, [data EXCEPT !.id = Len(rows) + 1]),
          success |-> TRUE, error |-> ""]

\* INSERT INTO podcasts ... : the row is added unless the statement raises
\* (D1 not reachable) or a UNIQUE column already holds the value; either way
\* the error is caught and reported in the return value
savePodcast(rows, data, up) ==
    IF ~up
    THEN [rows |-> rows, success |-> FALSE, error |-> "D1_ERROR"]
    ELSE IF \E i \in 1..Len(rows) : \E col \in UniqueColumns : rows[i][col] = data[col]
    THEN [rows |-> rows, success |-> FALSE, error |-> "UNIQUE constraint failed"]
    ELSE [rows |-> Append(rows, [data EXCEPT !.id = Len(rows) + 1]),
          success |-> TRUE, error |-> ""]

\* SELECT * FROM podcasts WHERE url = ?  (first row)
getPodcastByUrl(rows, u, up) ==
    IF ~up
    THEN [success |-> FALSE, data |-> NoRow, error |-> "D1_ERROR"]
    ELSE IF \E i \in 1..Len(rows) : rows[i].url = u
    THEN [success |-> TRUE,
          data |-> rows[CHOOSE i \in 1..Len(rows) :
                          rows[i].url = u /\ \A j \in 1..(i - 1) : rows[j].url # u],
          error |-> ""]
    ELSE [success |-> FALSE, data |-> NoRow, error |-> ""]

(***************************************************************************)
(* State                                                                   *)
(***************************************************************************)
VARIABLES
    env,            \* bindings present in the deployment (env.PODCAST_DB, env.AI, ...)
    dbUp,           \* D1 answers statements (TRUE) or raises on them (FALSE)
    podcasts,       \* rows of table podcasts, in insertion order
    bucket,         \* R2 bucket: file name -> stored object
    processingLogs, \* rows of table processing_logs (written by logProcessingError only,
                    \* which neither orchestrator calls)
    pc,             \* per request: the await it is suspended at
    entry,          \* per request: "sync" (generatePodcastSync) or "workflow" (PodcastWorkflow.run)
    url,            \* per request: the url argument
    userId,         \* per request: the userId argument
    content,        \* per request: local content
    title,          \* per request: local title
    summary,        \* per request: local summary
    audioBuffer,    \* per request: local audioBuffer
    result,         \* per request: the value returned to the caller
    calls,          \* per request: how often each step was invoked so far (history)
    cacheReply,     \* the body of the latest response to POST /check-cache
    extraction,     \* a call of scrapeWebpage taken by itself: the page it fetched and
                    \* the text it made of it, followed through the later truncations
    unit            \* a function or object of the code taken by itself: its arguments,
                    \* the state it keeps and the values it has returned

vars == <<env, dbUp, podcasts, bucket, processingLogs, pc, entry, url, userId,
          content, title, summary, audioBuffer, result, calls, cacheReply, extraction,
          unit>>

store == <<podcasts, bucket, processingLogs>>
locals == <<content, title, summary, audioBuffer>>
params == <<entry, url, userId>>

Steps == {"lookup", "fetch", "title", "summarize", "tts", "put", "save"}

\* the steps of steps invoked once more
Invoke(c, steps) == [k \in Steps |-> IF k \in steps THEN c[k] + 1 ELSE c[k]]

NoResult == [state |-> "none", cached |-> FALSE, error |-> "", data |-> NoRow]

\* no response to POST /check-cache so far
NoReply == [url |-> <<>>, status |-> 0, success |-> FALSE, cached |-> FALSE,
            result |-> NoRow, error |-> ""]

\* no scrapeWebpage call is followed
NoExtraction == [page |-> [kind |-> "network", htmlLen |-> 0, text |-> NoText],
                 stage |-> "none", ok |-> FALSE, text |-> NoText, error |-> ""]

\* no function or object is taken by itself
NoUnit == [of |-> "none"]

\* the deployment before the first request
InitDeployment ==
    /\ env \in EnvConfigs
    /\ dbUp = TRUE
    /\ podcasts = <<>>
    /\ bucket = <<>>
    /\ processingLogs = <<>>
    /\ pc = [r \in Reqs |-> "idle"]
    /\ entry = [r \in Reqs |-> "sync"]
    /\ url = [r \in Reqs |-> <<>>]
    /\ userId = [r \in Reqs |-> "anonymous"]
    /\ content = [r \in Reqs |-> NoText]
    /\ title = [r \in Reqs |-> <<>>]
    /\ summary = [r \in Reqs |-> NoText]
    /\ audioBuffer = [r \in Reqs |-> NoAudio]
    /\ result = [r \in Reqs |-> NoResult]
    /\ calls = [r \in Reqs |-> [k \in Steps |-> 0]]
    /\ cacheReply = NoReply

Init ==
    /\ InitDeployment
    /\ extraction = NoExtraction
    /\ unit = NoUnit

\* a deployment with every binding present and no request, in which a
\* function or object is taken by itself
InitIdle ==
    /\ InitDeployment
    /\ \A b \in Bindings : env[b]
    /\ extraction = NoExtraction

(***************************************************************************)
(* Environment: D1 stops answering, D1 answers again                       *)
(***************************************************************************)
D1Fails ==
    /\ env.db /\ dbUp
    /\ dbUp' = FALSE
    /\ UNCHANGED <<env, cacheReply, extraction, unit, store, pc, params, locals, result, calls>>

D1Recovers ==
    /\ env.db /\ ~dbUp
    /\ dbUp' = TRUE
    /\ UNCHANGED <<env, cacheReply, extraction, unit, store, pc, params, locals, result, calls>>

(***************************************************************************)
(* Shared pieces of the two orchestrators                                  *)
(***************************************************************************)
\* the url argument and the locals of a call are gone once it has returned;
\* entry and userId stay as the record of who called what
DropLocals(r) ==
    /\ url' = [url EXCEPT ![r] = <<>>]
    /\ UNCHANGED <<entry, userId>>
    /\ content' = [content EXCEPT ![r] = NoText]
    /\ title' = [title EXCEPT ![r] = <<>>]
    /\ summary' = [summary EXCEPT ![r] = NoText]
    /\ audioBuffer' = [audioBuffer EXCEPT ![r] = NoAudio]

\* new Error(`${prefix}: ${error.message}`); a message is kept up to its
\* first ": ", the phrase of the outermost handler that raised it
Wrap(prefix, inner) == prefix

\* variant: the catch block also persists a record with status failed
CatchRecordingFailure(r, message, steps) ==
    /\ pc' = [pc EXCEPT ![r] = "done"]
    /\ result' = [result EXCEPT ![r] = [state |-> "failure", cached |-> FALSE,
                                        error |-> message, data |-> NoRow]]
    /\ calls' = [calls EXCEPT ![r] = Invoke(calls[r], steps)]
    /\ podcasts' = Append(podcasts, [NoRow EXCEPT !.id = Len(podcasts) + 1, !.url = url[r],
                                                  !.user_id = userId[r], !.status = "failed"])
    /\ DropLocals(r)
    /\ UNCHANGED <<bucket, processingLogs>>

\* variant: a failed step is attempted again instead of ending the request
CatchAndRetry(r, message, steps) ==
    /\ calls' = [calls EXCEPT ![r] = Invoke(calls[r], steps)]
    /\ UNCHANGED <<pc, result, store, locals, params>>

\* the keys of the object an orchestrator returns: { success: false, error }
\* from the catch block, { success: true, data } from the pipeline, with
\* cached: true added on a cache hit
ResultKeys(res) ==
    IF res.state = "failure" THEN {"success", "error"}
    ELSE IF res.state = "success"
    THEN {"success", "data"} \cup (IF res.cached THEN {"cached"} ELSE {})
    ELSE {}

\* catch (error) { return { success: false, error: error.message } }
\* the request ends with a failure result; nothing is written anywhere
Catch(r, message, steps) ==
    /\ pc' = [pc EXCEPT ![r] = "done"]
    /\ result' = [result EXCEPT ![r] = [state |-> "failure", cached |-> FALSE,
                                        error |-> message, data |-> NoRow]]
    /\ calls' = [calls EXCEPT ![r] = Invoke(calls[r], steps)]
    /\ DropLocals(r)
    /\ UNCHANGED store

\* `${origin}/audio/${fileName}`
FullAudioUrl(fileName) == <<Origin, "/audio/", fileName>>

\* audioUrl?.startsWith('http')
StartsWithHttp(audioUrl) == Len(audioUrl) = 3 /\ audioUrl[1] = Origin

\* env.AUDIO_BUCKET.put(fileName, audioBuffer, { customMetadata: { url, title, userId } })
BucketPut(b, fileName, r) ==
    [k \in DOMAIN b \cup {fileName} |->
        IF k = fileName
        THEN [byteLength |-> audioBuffer[r].byteLength, url |-> url[r],
              title |-> title[r], userId |-> userId[r]]
        ELSE b[k]]

(***************************************************************************)
(* A caller starts a request: POST /generate calls generatePodcastSync     *)
(* once the url has passed new URL(), a workflow instance calls            *)
(* PodcastWorkflow.run with the url of its event.  initializeDatabase      *)
(* only issues CREATE ... IF NOT EXISTS statements and its result is       *)
(* ignored.                                                                *)
(***************************************************************************)
Start(r) ==
    /\ pc[r] = "idle"
    /\ \A q \in Reqs : q < r => pc[q] # "idle"
    /\ \E u \in Urls, e \in {"sync", "workflow"} :
        \* try { new URL(articleUrl) } catch (e) { return 400 'Invalid URL format' }
        /\ e = "sync" => ParseUrl(u).ok
        /\ e = "workflow" => u \in EventUrls
        /\ url' = [url EXCEPT ![r] = u]
        /\ userId' = [userId EXCEPT ![r] = OwnerOf(r)]
        /\ entry' = [entry EXCEPT ![r] = e]
    /\ pc' = [pc EXCEPT ![r] = "check"]
    /\ UNCHANGED <<env, dbUp, cacheReply, extraction, unit, store, locals, result, calls>>

(***************************************************************************)
(* generatePodcastSync                                                     *)
(***************************************************************************)
\* variant: the test of the lookup result is inverted
SyncCacheHitInverted(res) == res.success /\ res.data = NoRow

\* result.success && result.data
SyncCacheHit(res) == res.success /\ res.data # NoRow

\* variant: a lookup that cannot be made or does not answer ends the request
SyncCheckDatabaseStrict(r) ==
    /\ pc[r] = "check" /\ entry[r] = "sync"
    /\ IF ~env.db
       THEN Catch(r, "Database not available", {})
       ELSE LET res == getPodcastByUrl(podcasts, url[r], dbUp)
            IN  IF res.error # ""
                THEN Catch(r, "Database check failed", {"lookup"})
                ELSE /\ calls' = [calls EXCEPT ![r] = Invoke(calls[r], {"lookup"})]
                     /\ IF SyncCacheHit(res)
                        THEN /\ pc' = [pc EXCEPT ![r] = "done"]
                             /\ result' = [result EXCEPT ![r] =
                                    [state |-> "success", cached |-> TRUE, error |-> "", data |-> res.data]]
                             /\ DropLocals(r)
                        ELSE /\ pc' = [pc EXCEPT ![r] = "scrape"]
                             /\ UNCHANGED <<result, locals, params>>
                     /\ UNCHANGED store
    /\ UNCHANGED <<env, dbUp, cacheReply, extraction, unit>>

\* Step 1: check database for existing podcast
SyncCheckDatabase(r) ==
    /\ pc[r] = "check" /\ entry[r] = "sync"
    /\ IF ~env.db
       THEN /\ pc' = [pc EXCEPT ![r] = "scrape"]
            /\ UNCHANGED <<result, calls, locals, params>>
       ELSE LET res == getPodcastByUrl(podcasts, url[r], dbUp)
                cachedData ==
                    IF res.data.audio_file_name # <<>> /\ ~StartsWithHttp(res.data.audio_url)
                    THEN [res.data EXCEPT !.audio_url = FullAudioUrl(res.data.audio_file_name)]
                    ELSE res.data
            IN  /\ calls' = [calls EXCEPT ![r] = Invoke(calls[r], {"lookup"})]
                /\ IF SyncCacheHit(res)
                   THEN /\ pc' = [pc EXCEPT ![r] = "done"]
                        /\ result' = [result EXCEPT ![r] =
                               [state |-> "success", cached |-> TRUE, error |-> "", data |-> cachedData]]
                        /\ DropLocals(r)
                   ELSE /\ pc' = [pc EXCEPT ![r] = "scrape"]
                        /\ UNCHANGED <<result, locals, params>>
    /\ UNCHANGED <<env, dbUp, cacheReply, extraction, unit, store>>

\* Step 2: Promise.all([scrapeWebpage(url), extractTitle(url)]) and the length check
SyncScrape(r) ==
    /\ pc[r] = "scrape" /\ entry[r] = "sync"
    /\ \E resp \in FetchResponses(ParseUrl(url[r]).ok) :
        LET scraped == scrapeWebpage(resp)
            derived == extractTitle(url[r])
            steps == {"fetch", "title"}
        IN  IF ~scraped.ok
            THEN Catch(r, Wrap("Failed to scrape webpage", Wrap("Failed to scrape webpage", scraped.error)), steps)
            ELSE IF scraped.text.len < MinContentLength
            THEN Catch(r, "Insufficient content extracted from webpage. The page may be empty or require authentication.", steps)
            ELSE /\ content' = [content EXCEPT ![r] = scraped.text]
                 /\ title' = [title EXCEPT ![r] = derived]
                 /\ pc' = [pc EXCEPT ![r] = "summarize"]
                 /\ calls' = [calls EXCEPT ![r] = Invoke(calls[r], steps)]
                 /\ UNCHANGED <<store, summary, audioBuffer, result, params>>
    /\ UNCHANGED <<env, dbUp, cacheReply, extraction, unit, unit>>

MinSummaryLength == 30

\* Step 3: AI summarization
SyncSummarize(r) ==
    /\ pc[r] = "summarize" /\ entry[r] = "sync"
    /\ IF ~env.ai
       THEN Catch(r, "AI service not available. Please check configuration.", {})
       ELSE \E resp \in AiResponses :
            LET truncatedContent == TruncateAtSentence(content[r], ContentLimit, ContentBoundary)
                res == summarizeArticle(truncatedContent, resp)
            IN  IF ~res.ok
                THEN Catch(r, Wrap("AI summarization failed", res.error), {"summarize"})
                ELSE IF res.script.len < MinSummaryLength
                THEN Catch(r, "AI generated insufficient content. The article may be too short or complex to summarize.", {"summarize"})
                ELSE /\ summary' = [summary EXCEPT ![r] = res.script]
                     /\ pc' = [pc EXCEPT ![r] = "audio"]
                     /\ calls' = [calls EXCEPT ![r] = Invoke(calls[r], {"summarize"})]
                     /\ UNCHANGED <<store, content, title, audioBuffer, result, params>>
    /\ UNCHANGED <<env, dbUp, cacheReply, extraction, unit, unit>>

\* variant: whatever the text-to-speech request delivers is taken as the audio
SyncGenerateAudioUnchecked(r) ==
    /\ pc[r] = "audio" /\ entry[r] = "sync"
    /\ \E resp \in TtsResponses :
        /\ audioBuffer' = [audioBuffer EXCEPT ![r] = [byteLength |-> resp.byteLength]]
        /\ pc' = [pc EXCEPT ![r] = "store"]
        /\ calls' = [calls EXCEPT ![r] = Invoke(calls[r], {"tts"})]
        /\ UNCHANGED <<store, content, title, summary, result, params>>
    /\ UNCHANGED <<env, dbUp, cacheReply, extraction, unit>>

\* Step 4: generate audio with ElevenLabs
SyncGenerateAudio(r) ==
    /\ pc[r] = "audio" /\ entry[r] = "sync"
    /\ IF generateAudioPrecheck(summary[r], env) # ""
       THEN Catch(r, Wrap("Audio generation failed", generateAudioPrecheck(summary[r], env)), {})
       ELSE \E resp \in TtsResponses :
            LET res == generateAudio(resp)
            IN  IF ~res.ok
                THEN Catch(r, Wrap("Audio generation failed", Wrap("ElevenLabs TTS failed", res.error)), {"tts"})
                ELSE IF res.audio.byteLength = 0
                THEN Catch(r, Wrap("Audio generation failed", "Generated audio is empty"), {"tts"})
                ELSE /\ audioBuffer' = [audioBuffer EXCEPT ![r] = res.audio]
                     /\ pc' = [pc EXCEPT ![r] = "store"]
                     /\ calls' = [calls EXCEPT ![r] = Invoke(calls[r], {"tts"})]
                     /\ UNCHANGED <<store, content, title, summary, result, params>>
    /\ UNCHANGED <<env, dbUp, cacheReply, extraction, unit, unit>>

\* variant: a failed put is only logged and the request goes on to save the record
SyncPutFailureSwallowed(r) ==
    /\ pc' = [pc EXCEPT ![r] = "save"]
    /\ calls' = [calls EXCEPT ![r] = Invoke(calls[r], {"put"})]
    /\ UNCHANGED <<store, locals, result, params>>

\* catch (error) { throw new Error(`Failed to store audio: ${error.message}`) }
SyncPutFailed(r) == Catch(r, Wrap("Failed to store audio", "put failed"), {"put"})

\* Step 5: store audio in R2
SyncStoreAudio(r) ==
    /\ pc[r] = "store" /\ entry[r] = "sync"
    /\ IF ~env.bucket
       THEN Catch(r, "Audio storage not configured. Please check R2 bucket settings.", {})
       ELSE \E outcome \in PutOutcomes :
            IF outcome = "raise"
            THEN SyncPutFailed(r)
            ELSE /\ bucket' = BucketPut(bucket, AudioFileName(url[r]), r)
                 /\ pc' = [pc EXCEPT ![r] = "save"]
                 /\ calls' = [calls EXCEPT ![r] = Invoke(calls[r], {"put"})]
                 /\ UNCHANGED <<podcasts, processingLogs, locals, result, params>>
    /\ UNCHANGED <<env, dbUp, cacheReply, extraction, unit, unit>>

\* variant: the record reports the script's length as the length of the source text
SyncPodcastDataScriptAsContent(r) ==
    [id |-> 0,
     url |-> url[r],
     title |-> title[r],
     summary |-> summary[r],
     audio_file_name |-> AudioFileName(url[r]),
     audio_url |-> FullAudioUrl(AudioFileName(url[r])),
     user_id |-> userId[r],
     status |-> "completed",
     content_length |-> summary[r].len,
     summary_length |-> summary[r].len,
     audio_size_bytes |-> audioBuffer[r].byteLength,
     cache_key |-> generateCacheKey(url[r])]

\* variant: the record is stored with the bare file name as its audio url
SyncPodcastDataBareAudioUrl(r) ==
    [id |-> 0,
     url |-> url[r],
     title |-> title[r],
     summary |-> summary[r],
     audio_file_name |-> AudioFileName(url[r]),
     audio_url |-> AudioFileName(url[r]),
     user_id |-> userId[r],
     status |-> "completed",
     content_length |-> content[r].len,
     summary_length |-> summary[r].len,
     audio_size_bytes |-> audioBuffer[r].byteLength,
     cache_key |-> generateCacheKey(url[r])]

\* const podcastData = { url, title, summary, audioFileName, audioUrl, userId, status, ... }
SyncPodcastData(r) ==
    [id |-> 0,
     url |-> url[r],
     title |-> title[r],
     summary |-> summary[r],
     audio_file_name |-> AudioFileName(url[r]),
     audio_url |-> FullAudioUrl(AudioFileName(url[r])),
     user_id |-> userId[r],
     status |-> "completed",
     content_length |-> content[r].len,
     summary_length |-> summary[r].len,
     audio_size_bytes |-> audioBuffer[r].byteLength,
     cache_key |-> generateCacheKey(url[r])]

\* variant: a save that reports failure turns the result into a failure
SyncSaveResultSurfacing(r, saveResult) ==
    IF saveResult.success
    THEN [state |-> "success", cached |-> FALSE, error |-> "", data |-> SyncPodcastData(r)]
    ELSE [state |-> "failure", cached |-> FALSE, error |-> saveResult.error, data |-> NoRow]

\* the value returned after step 6, whatever savePodcast reported
SyncSaveResult(r, saveResult) ==
    [state |-> "success", cached |-> FALSE, error |-> "", data |-> SyncPodcastData(r)]

\* Step 6: save to database; a failed save is written to the console only
SyncSave(r) ==
    /\ pc[r] = "save" /\ entry[r] = "sync"
    /\ IF ~env.db
       THEN /\ result' = [result EXCEPT ![r] = SyncSaveResult(r, [success |-> TRUE, error |-> ""])]
            /\ UNCHANGED <<podcasts, calls>>
       ELSE LET saveResult == savePodcast(podcasts, SyncPodcastData(r), dbUp)
            IN  /\ podcasts' = saveResult.rows
                /\ result' = [result EXCEPT ![r] = SyncSaveResult(r, saveResult)]
                /\ calls' = [calls EXCEPT ![r] = Invoke(calls[r], {"save"})]
    /\ pc' = [pc EXCEPT ![r] = "done"]
    /\ DropLocals(r)
    /\ UNCHANGED <<env, dbUp, cacheReply, extraction, unit, bucket, processingLogs>>

(***************************************************************************)
(* PodcastWorkflow.run.  Each step.do callback is run once: the class      *)
(* passes no retry configuration and the retry policy of the workflow      *)
(* runtime is not part of the repository.                                  *)
(***************************************************************************)
\* if (cached && cached.audioFileName)
WfCacheHit(cached) == cached # NoRow /\ cached.audio_file_name # <<>>

\* step 'check-database'
WfCheckDatabase(r) ==
    /\ pc[r] = "check" /\ entry[r] = "workflow"
    /\ IF ~env.db
       THEN /\ pc' = [pc EXCEPT ![r] = "scrape"]
            /\ UNCHANGED <<result, calls, locals, params>>
       ELSE LET res == getPodcastByUrl(podcasts, url[r], dbUp)
                cached == IF res.success /\ res.data # NoRow THEN res.data ELSE NoRow
            IN  /\ calls' = [calls EXCEPT ![r] = Invoke(calls[r], {"lookup"})]
                /\ IF WfCacheHit(cached)
                   THEN /\ pc' = [pc EXCEPT ![r] = "done"]
                        /\ result' = [result EXCEPT ![r] =
                               [state |-> "success", cached |-> TRUE, error |-> "", data |-> cached]]
                        /\ DropLocals(r)
                   ELSE /\ pc' = [pc EXCEPT ![r] = "scrape"]
                        /\ UNCHANGED <<result, locals, params>>
    /\ UNCHANGED <<env, dbUp, cacheReply, extraction, unit, store>>

\* variant: the join is a race, the run goes on when either branch has delivered
JoinPcEither(contentDone, titleDone) == IF contentDone \/ titleDone THEN "summarize" ELSE "scrape"

\* variant: the join never resumes the run
JoinPcNever(contentDone, titleDone) == "scrape"

\* const [content, title] = await Promise.all([...]): the run goes on to
\* summarization once both branches have delivered their value
JoinPc(contentDone, titleDone) == IF contentDone /\ titleDone THEN "summarize" ELSE "scrape"

\* step 'scrape-webpage', one of the two branches of Promise.all
WfScrapeWebpage(r) ==
    /\ pc[r] = "scrape" /\ entry[r] = "workflow"
    /\ content[r] = NoText
    /\ \E resp \in FetchResponses(ParseUrl(url[r]).ok) :
        LET scraped == scrapeWebpage(resp)
        IN  IF ~scraped.ok
            THEN Catch(r, Wrap("Failed to scrape webpage", Wrap("Failed to scrape webpage", scraped.error)), {"fetch"})
            ELSE IF scraped.text.len < MinContentLength
            THEN Catch(r, Wrap("Failed to scrape webpage", "Insufficient content extracted from webpage"), {"fetch"})
            ELSE /\ content' = [content EXCEPT ![r] = scraped.text]
                 /\ pc' = [pc EXCEPT ![r] = JoinPc(TRUE, title[r] # <<>>)]
                 /\ calls' = [calls EXCEPT ![r] = Invoke(calls[r], {"fetch"})]
                 /\ UNCHANGED <<store, title, summary, audioBuffer, result, params>>
    /\ UNCHANGED <<env, dbUp, cacheReply, extraction, unit, unit>>

\* variant: a url that does not parse makes the step raise, which rejects Promise.all
WfExtractTitleRaising(r) ==
    /\ pc[r] = "scrape" /\ entry[r] = "workflow"
    /\ title[r] = <<>>
    /\ IF ParseUrl(url[r]).ok
       THEN /\ title' = [title EXCEPT ![r] = extractTitle(url[r])]
            /\ pc' = [pc EXCEPT ![r] = JoinPc(content[r] # NoText, TRUE)]
            /\ calls' = [calls EXCEPT ![r] = Invoke(calls[r], {"title"})]
            /\ UNCHANGED <<store, content, summary, audioBuffer, result, params>>
       ELSE Catch(r, "Invalid URL", {"title"})
    /\ UNCHANGED <<env, dbUp, cacheReply, extraction, unit, unit>>

\* step 'extract-title', the other branch of Promise.all
WfExtractTitle(r) ==
    /\ pc[r] = "scrape" /\ entry[r] = "workflow"
    /\ title[r] = <<>>
    /\ title' = [title EXCEPT ![r] = extractTitle(url[r])]
    /\ pc' = [pc EXCEPT ![r] = JoinPc(content[r] # NoText, TRUE)]
    /\ calls' = [calls EXCEPT ![r] = Invoke(calls[r], {"title"})]
    /\ UNCHANGED <<env, dbUp, cacheReply, extraction, unit, store, content, summary, audioBuffer, result, params>>

\* step 'summarize-content'
WfSummarizeContent(r) ==
    /\ pc[r] = "summarize" /\ entry[r] = "workflow"
    /\ IF ~env.ai
       THEN Catch(r, "AI not available", {})
       ELSE \E resp \in AiResponses :
            LET truncatedContent == TruncateAtSentence(content[r], ContentLimit, ContentBoundary)
                res == summarizeArticle(truncatedContent, resp)
            IN  IF ~res.ok
                THEN Catch(r, Wrap("Failed to create podcast script", res.error), {"summarize"})
                ELSE IF res.script.len < MinSummaryLength
                THEN Catch(r, Wrap("Failed to create podcast script", "AI generated insufficient content"),
                           {"summarize"})
                ELSE /\ summary' = [summary EXCEPT ![r] = res.script]
                     /\ pc' = [pc EXCEPT ![r] = "audio"]
                     /\ calls' = [calls EXCEPT ![r] = Invoke(calls[r], {"summarize"})]
                     /\ UNCHANGED <<store, content, title, audioBuffer, result, params>>
    /\ UNCHANGED <<env, dbUp, cacheReply, extraction, unit, unit>>

\* step 'generate-audio'
WfGenerateAudio(r) ==
    /\ pc[r] = "audio" /\ entry[r] = "workflow"
    /\ IF generateAudioPrecheck(summary[r], env) # ""
       THEN Catch(r, Wrap("Failed to generate audio", generateAudioPrecheck(summary[r], env)), {})
       ELSE \E resp \in TtsResponses :
            LET res == generateAudio(resp)
            IN  IF ~res.ok
                THEN Catch(r, Wrap("Failed to generate audio", Wrap("ElevenLabs TTS failed", res.error)), {"tts"})
                ELSE IF res.audio.byteLength = 0
                THEN Catch(r, Wrap("Failed to generate audio", "Generated audio is empty"), {"tts"})
                ELSE /\ audioBuffer' = [audioBuffer EXCEPT ![r] = res.audio]
                     /\ pc' = [pc EXCEPT ![r] = "store"]
                     /\ calls' = [calls EXCEPT ![r] = Invoke(calls[r], {"tts"})]
                     /\ UNCHANGED <<store, content, title, summary, result, params>>
    /\ UNCHANGED <<env, dbUp, cacheReply, extraction, unit, unit>>

\* step 'store-audio': the file name is built with this.generateCacheKey(url),
\* which the class does not define (generateCacheKey is a module import), so
\* the call raises a TypeError inside the try block before AUDIO_BUCKET.put
\* is reached.  The step 'save-to-database' that follows is therefore never
\* run.
WfStoreAudio(r) ==
    /\ pc[r] = "store" /\ entry[r] = "workflow"
    /\ IF ~env.bucket
       THEN Catch(r, "R2 bucket not configured", {})
       ELSE Catch(r, Wrap("Failed to store audio", "this.generateCacheKey is not a function"), {})
    /\ UNCHANGED <<env, dbUp, cacheReply, extraction, unit, unit>>

(***************************************************************************)
(* Specification                                                           *)
(***************************************************************************)
Next ==
    \/ D1Fails
    \/ D1Recovers
    \/ \E r \in Reqs :
        \/ Start(r)
        \/ SyncCheckDatabase(r)
        \/ SyncScrape(r)
        \/ SyncSummarize(r)
        \/ SyncGenerateAudio(r)
        \/ SyncStoreAudio(r)
        \/ SyncSave(r)
        \/ WfCheckDatabase(r)
        \/ WfScrapeWebpage(r)
        \/ WfExtractTitle(r)
        \/ WfSummarizeContent(r)
        \/ WfGenerateAudio(r)
        \/ WfStoreAudio(r)

Spec == Init /\ [][Next]_vars

(***************************************************************************)
(* POST /check-cache (handleRequest, route 3): a lookup by url on behalf of  *)
(* a caller that wants to know whether a podcast is stored already.          *)
(***************************************************************************)
\* the urls sent to /check-cache; the empty string stands for a body without url
CheckedUrls == Urls \cup {<<>>}

\* variant: a lookup that does not deliver a record is reported as an error
CheckCacheMissAsError(u) ==
    [url |-> u, status |-> 500, success |-> FALSE, cached |-> FALSE,
     result |-> NoRow, error |-> "Cache check failed"]

\* jsonResponse({ success: true, data: { cached: false } }, 200)
CheckCacheMiss(u) ==
    [url |-> u, status |-> 200, success |-> TRUE, cached |-> FALSE,
     result |-> NoRow, error |-> ""]

\* the response of the route for the body { url: u }
checkCacheResponse(u) ==
    IF u = <<>>
    THEN [url |-> u, status |-> 400, success |-> FALSE, cached |-> FALSE,
          result |-> NoRow, error |-> "URL is required"]
    ELSE IF ~env.db
    THEN CheckCacheMiss(u)
    ELSE LET res == getPodcastByUrl(podcasts, u, dbUp)
             cached ==
                 IF res.data.audio_file_name # <<>> /\ res.data.audio_url = <<>>
                 THEN [res.data EXCEPT !.audio_url = FullAudioUrl(res.data.audio_file_name)]
                 ELSE res.data
         IN  IF res.success /\ res.data # NoRow
             THEN [url |-> u, status |-> 200, success |-> TRUE, cached |-> TRUE,
                   result |-> cached, error |-> ""]
             ELSE CheckCacheMiss(u)

CheckCache(u) ==
    /\ cacheReply' = checkCacheResponse(u)
    /\ UNCHANGED <<env, dbUp, extraction, unit, store, pc, params, locals, result, calls>>

CacheNext == Next \/ \E u \in CheckedUrls : CheckCache(u)

CacheSpec == Init /\ [][CacheNext]_vars

(***************************************************************************)
(* scrapeWebpage by itself: one call on a fetched page, and the two later    *)
(* truncations of the text it returns (generatePodcastSync step 3 and        *)
(* summarizeArticle), over pages whose lengths and periods lie around the    *)
(* limits of the code.                                                       *)
(***************************************************************************)
\* how many periods a sampled page text holds at most
MaxPeriods == 2

\* lengths of the markup and of its cleaned text, and 0-based indexes of periods
SampleHtmlLengths == {50, 99, 100, 3000}
SampleTextLengths == {40, 99, 100, 101, 801, 802, 1000, 1001, 1200}
SamplePeriodIndexes == {30, 799, 800, 801, 850, 999, 1000, 1100}

SamplePages ==
    {r \in PageResponses : r.kind # "body"}
    \cup { [kind |-> "body", htmlLen |-> h, text |-> [len |-> n, periods |-> ps]] :
             h \in SampleHtmlLengths,
             n \in SampleTextLengths,
             ps \in {qs \in SUBSET SamplePeriodIndexes : Cardinality(qs) <= MaxPeriods} }

\* cleaning removes or replaces characters, it adds none; a period lies inside the text
WellFormedPage(p) ==
    p.kind = "body" => /\ p.text.len <= p.htmlLen
                       /\ \A i \in p.text.periods : i < p.text.len

ExtractInit ==
    /\ InitDeployment
    /\ \E p \in SamplePages :
        /\ WellFormedPage(p)
        /\ extraction = [NoExtraction EXCEPT !.page = p, !.stage = "fetched"]
    /\ unit = NoUnit

\* const content = await scrapeWebpage(url)
Extract ==
    /\ extraction.stage = "fetched"
    /\ LET res == scrapeWebpage(extraction.page)
       IN  extraction' = [extraction EXCEPT !.stage = IF res.ok THEN "extracted" ELSE "failed",
                                            !.ok = res.ok, !.text = res.text,
                                            !.error = res.error]
    /\ UNCHANGED <<env, dbUp, cacheReply, unit, store, pc, params, locals, result, calls>>

\* generatePodcastSync step 3: truncatedContent
OrchestratorTruncate ==
    /\ extraction.stage = "extracted"
    /\ extraction' = [extraction EXCEPT
                        !.stage = "orchestrated",
                        !.text = TruncateAtSentence(extraction.text, ContentLimit, ContentBoundary)]
    /\ UNCHANGED <<env, dbUp, cacheReply, unit, store, pc, params, locals, result, calls>>

\* summarizeArticle: processedContent
SummarizerTruncate ==
    /\ extraction.stage = "orchestrated"
    /\ extraction' = [extraction EXCEPT
                        !.stage = "summarized",
                        !.text = TruncateAtSentence(extraction.text, ContentLimit, ContentBoundary)]
    /\ UNCHANGED <<env, dbUp, cacheReply, unit, store, pc, params, locals, result, calls>>

ExtractNext == Extract \/ OrchestratorTruncate \/ SummarizerTruncate

ExtractSpec == ExtractInit /\ [][ExtractNext]_vars

(***************************************************************************)
(* extractTitle by itself: one call on a string a caller may send.           *)
(***************************************************************************)
\* scheme prefixes; a string without one does not parse as a URL
SampleSchemes ==
    { <<104, 116, 116, 112, 115, 58, 47, 47>>,   \* "https://"
      <<104, 116, 116, 112, 58, 47, 47>>,        \* "http://"
      <<>> }                                     \* ""

\* host names
SampleHosts ==
    { <<120, 46, 99, 111, 109>>,                                           \* "x.com"
      <<119, 119, 119, 46, 120, 46, 99, 111, 109>>,                        \* "www.x.com"
      <<101, 120, 97, 109, 112, 108, 101, 46, 99, 111, 109>>,              \* "example.com"
      <<119, 119, 119, 46, 101, 120, 97, 109, 112, 108, 101, 46, 99, 111, 109>>,  \* "www.example.com"
      <<109, 121, 45, 115, 105, 116, 101, 46, 111, 114, 103>>,             \* "my-site.org"
      <<87, 87, 87, 46, 78, 101, 119, 115, 46, 105, 111>>,                 \* "WWW.News.io"
      <<97, 119, 119, 119, 46, 98, 99, 100, 46, 99, 111, 109>>,            \* "awww.bcd.com"
      <<108, 111, 99, 97, 108, 104, 111, 115, 116>> }                      \* "localhost"

\* "abcdefghi-abcdefghi-...-abcdefghi": twelve words, 119 characters
LongSlug == <<>> \o [k \in 1..119 |-> IF k % 10 = 0 THEN ChHyphen ELSE 96 + (k % 10)]

\* path, query and fragment
SamplePaths ==
    { <<>>,                                                           \* ""
      <<47>>,                                                         \* "/"
      <<47, 109, 121, 45, 112, 111, 115, 116>>,                       \* "/my-post"
      <<47, 97, 47, 98, 95, 99, 46, 104, 116, 109, 108>>,             \* "/a/b_c.html"
      <<47, 97, 98>>,                                                 \* "/ab"
      <<47, 98, 108, 111, 103, 47>>,                                  \* "/blog/"
      <<47, 63, 113, 61, 49>>,                                        \* "/?q=1"
      <<47, 46, 104, 105, 100, 100, 101, 110>>,                       \* "/.hidden"
      <<47, 109, 121, 45, 45, 80, 111, 115, 116, 35, 116, 111, 112>>, \* "/my--Post#top"
      <<ChSlash>> \o LongSlug }

SampleUrls ==
    {s \o h \o p : s \in SampleSchemes, h \in SampleHosts, p \in SamplePaths} \cup {UrlBad}

TitleInit ==
    /\ InitIdle
    /\ \E u \in SampleUrls : unit = [of |-> "extractTitle", url |-> u, returned |-> FALSE, title |-> <<>>]

\* const title = extractTitle(url)
ExtractTitle ==
    /\ unit.of = "extractTitle" /\ ~unit.returned
    /\ unit' = [unit EXCEPT !.returned = TRUE, !.title = extractTitle(unit.url)]
    /\ UNCHANGED <<env, dbUp, cacheReply, extraction, store, pc, params, locals, result, calls>>

TitleSpec == TitleInit /\ [][ExtractTitle]_vars

(***************************************************************************)
(* validateUrl by itself: the format checks, then a HEAD request raced       *)
(* against a timer that aborts it.                                           *)
(***************************************************************************)
\* "ftp://x.com/a"
UrlFtp == <<102, 116, 112, 58, 47, 47, 120, 46, 99, 111, 109, 47, 97>>

ValidatedUrls == SampleUrls \cup {UrlFtp}

\* setTimeout(() => controller.abort(), 5000)
HeadTimeoutMs == 5000

\* urlObj.protocol: the scheme in lower case with its colon
UrlProtocol(u) ==
    LET colon == IndexOfCh(u, ChColon, 1)
    IN  <<>> \o [k \in 1..colon |-> ToLowerCh(u[k])]

\* ['http:', 'https:']
WebProtocols == { <<104, 116, 116, 112, 58>>, <<104, 116, 116, 112, 115, 58>> }

\* the answers to the HEAD request: fetch rejects (network error), or a status
HeadAnswers == {"reject", "200", "405", "404", "500"}

\* response.ok || response.status === 405
HeadAccepted(answer) == answer \in {"200", "405"}

ValidateInit ==
    /\ InitIdle
    /\ \E u \in ValidatedUrls :
        unit = [of |-> "validateUrl", url |-> u, at |-> "called", timer |-> 0,
                head |-> "none", warned |-> FALSE, outcome |-> "none", error |-> ""]

\* new URL(url), the protocol check, and the start of fetch and timer
ValidateFormat ==
    /\ unit.of = "validateUrl" /\ unit.at = "called"
    /\ unit' = IF ~ParseUrl(unit.url).ok
               THEN [unit EXCEPT !.at = "done", !.outcome = "raised", !.error = "Invalid URL format"]
               ELSE IF UrlProtocol(unit.url) \notin WebProtocols
               THEN [unit EXCEPT !.at = "done", !.outcome = "raised",
                                 !.error = "URL must use HTTP or HTTPS protocol"]
               ELSE [unit EXCEPT !.at = "head", !.timer = HeadTimeoutMs, !.head = "pending"]
    /\ UNCHANGED <<env, dbUp, cacheReply, extraction, store, pc, params, locals, result, calls>>

\* the HEAD request settles before the timer fires: clearTimeout; a status
\* that is not accepted raises ValidationError('URL is not accessible') inside
\* the try block, whose catch handles it like a rejected fetch: every error
\* whose name is not AbortError is logged and validateUrl returns urlObj
HeadSettles ==
    /\ unit.of = "validateUrl" /\ unit.at = "head"
    /\ \E answer \in HeadAnswers :
        unit' = [unit EXCEPT !.at = "done", !.timer = 0, !.head = answer,
                                !.warned = ~HeadAccepted(answer), !.outcome = "returned"]
    /\ UNCHANGED <<env, dbUp, cacheReply, extraction, store, pc, params, locals, result, calls>>

\* the timer fires first: controller.abort() rejects the fetch with an
\* AbortError, and the catch block raises
\* ValidationError('URL took too long to respond (timeout)')
HeadTimesOut ==
    /\ unit.of = "validateUrl" /\ unit.at = "head"
    /\ unit' = [unit EXCEPT !.at = "done", !.timer = 0, !.head = "aborted", !.outcome = "raised",
                            !.error = "URL took too long to respond (timeout)"]
    /\ UNCHANGED <<env, dbUp, cacheReply, extraction, store, pc, params, locals, result, calls>>

ValidateNext == ValidateFormat \/ HeadSettles \/ HeadTimesOut

ValidateSpec == ValidateInit /\ [][ValidateNext]_vars

(***************************************************************************)
(* getUserHistory and recordUserAccess by themselves, over tables podcasts   *)
(* and user_history reduced to the columns the query reads.                  *)
(***************************************************************************)
\* rows the two tables hold at most, and the seconds CURRENT_TIMESTAMP runs over
MaxPodcastRows == 2
MaxAccessRows == 2
MaxClock == 1

Owners == {"anonymous", "user"}

\* the limit arguments of getUserHistory
Limits == {1, 2, 3}

UserHistoryInit ==
    /\ InitIdle
    /\ unit = [of |-> "getUserHistory", podcasts |-> <<>>, user_history |-> <<>>, now |-> 0,
               userId |-> "", limit |-> 0, results |-> <<>>]

\* CURRENT_TIMESTAMP moves on
ClockTicks ==
    /\ unit.of = "getUserHistory" /\ unit.now < MaxClock
    /\ unit' = [unit EXCEPT !.now = unit.now + 1]
    /\ UNCHANGED <<env, dbUp, cacheReply, extraction, store, pc, params, locals, result, calls>>

\* a row is inserted into podcasts (id AUTOINCREMENT, created_at DEFAULT CURRENT_TIMESTAMP)
InsertPodcast(owner) ==
    /\ unit.of = "getUserHistory" /\ Len(unit.podcasts) < MaxPodcastRows
    /\ unit' = [unit EXCEPT !.podcasts = Append(unit.podcasts,
                                [id |-> Len(unit.podcasts) + 1, user_id |-> owner,
                                 created_at |-> unit.now])]
    /\ UNCHANGED <<env, dbUp, cacheReply, extraction, store, pc, params, locals, result, calls>>

\* recordUserAccess(db, userId, podcastId): INSERT INTO user_history; the row
\* is refused when podcast_id names no row of podcasts (FOREIGN KEY)
recordUserAccess(userIdArg, podcastId) ==
    /\ unit.of = "getUserHistory" /\ Len(unit.user_history) < MaxAccessRows
    /\ podcastId \in 1..Len(unit.podcasts)
    /\ unit' = [unit EXCEPT !.user_history = Append(unit.user_history,
                                [id |-> Len(unit.user_history) + 1, user_id |-> userIdArg,
                                 podcast_id |-> podcastId, accessed_at |-> unit.now])]
    /\ UNCHANGED <<env, dbUp, cacheReply, extraction, store, pc, params, locals, result, calls>>

\* FROM podcasts p LEFT JOIN user_history uh ON p.id = uh.podcast_id AND uh.user_id = ?
\* WHERE p.user_id = ? : one row per matching pair, and one row with a null
\* last_accessed (-1) for a podcast without a match
JoinedRows(podcastRows, accessRows, userIdArg) ==
    LET owned == {i \in 1..Len(podcastRows) : podcastRows[i].user_id = userIdArg}
        matches(i) == {j \in 1..Len(accessRows) :
                         accessRows[j].podcast_id = podcastRows[i].id
                         /\ accessRows[j].user_id = userIdArg}
    IN  UNION { IF matches(i) = {}
                THEN {[id |-> podcastRows[i].id, userId |-> podcastRows[i].user_id,
                       createdAt |-> podcastRows[i].created_at, lastAccessed |-> -1, uh |-> 0]}
                ELSE {[id |-> podcastRows[i].id, userId |-> podcastRows[i].user_id,
                       createdAt |-> podcastRows[i].created_at,
                       lastAccessed |-> accessRows[j].accessed_at, uh |-> j] : j \in matches(i)}
              : i \in owned }

\* ORDER BY p.created_at DESC: the orders of the rows the clause allows (rows
\* with equal created_at come in any order)
OrderedNewestFirst(rows) ==
    {s \in [1..Cardinality(rows) -> rows] :
        /\ \A a, b \in 1..Cardinality(rows) : a # b => s[a] # s[b]
        /\ \A a, b \in 1..Cardinality(rows) : a < b => s[a].createdAt >= s[b].createdAt}

\* getUserHistory(db, userId, limit): ... LIMIT ?
getUserHistory(userIdArg, limitArg) ==
    /\ unit.of = "getUserHistory"
    /\ \E s \in OrderedNewestFirst(JoinedRows(unit.podcasts, unit.user_history, userIdArg)) :
        unit' = [unit EXCEPT !.userId = userIdArg, !.limit = limitArg,
                             !.results = SubSeq(s, 1, IF Len(s) < limitArg THEN Len(s) ELSE limitArg)]
    /\ UNCHANGED <<env, dbUp, cacheReply, extraction, store, pc, params, locals, result, calls>>

UserHistoryNext ==
    \/ ClockTicks
    \/ \E owner \in Owners : InsertPodcast(owner)
    \/ \E u \in Owners, id \in 1..MaxPodcastRows : recordUserAccess(u, id)
    \/ \E u \in Owners, n \in Limits : getUserHistory(u, n)

UserHistorySpec == UserHistoryInit /\ [][UserHistoryNext]_vars

(***************************************************************************)
(* checkRateLimit by itself: concurrent calls for one user on one day, over  *)
(* the counter kept under `ratelimit_${userId}_${getDateKey()}` in the       *)
(* PODCAST_CACHE namespace, which is bound and answers every get and put.    *)
(***************************************************************************)
\* calls of checkRateLimit in flight together, and the limit they are given
NumCallers == 4
DailyLimit == 2

Callers == 1..NumCallers

RateLimitInit ==
    /\ InitIdle
    /\ unit = [of |-> "checkRateLimit",
               kv |-> 0,                                  \* the stored count, 0 for no key
               at |-> [c \in Callers |-> "called"],       \* the await each call is at
               count |-> [c \in Callers |-> 0],           \* its local count
               outcome |-> [c \in Callers |-> "none"]]

\* const current = await env.PODCAST_CACHE.get(key); count = current ? parseInt(current) : 0
\* if (count >= limit) throw new RateLimitError(...)
RateLimitGet(c) ==
    /\ unit.of = "checkRateLimit" /\ unit.at[c] = "called"
    /\ unit' = IF unit.kv >= DailyLimit
               THEN [unit EXCEPT !.at[c] = "done", !.count[c] = unit.kv,
                                 !.outcome[c] = "RateLimitError"]
               ELSE [unit EXCEPT !.at[c] = "put", !.count[c] = unit.kv]
    /\ UNCHANGED <<env, dbUp, cacheReply, extraction, store, pc, params, locals, result, calls>>

\* await env.PODCAST_CACHE.put(key, String(count + 1), ...); return true
RateLimitPut(c) ==
    /\ unit.of = "checkRateLimit" /\ unit.at[c] = "put"
    /\ unit' = [unit EXCEPT !.kv = unit.count[c] + 1, !.at[c] = "done", !.outcome[c] = "true"]
    /\ UNCHANGED <<env, dbUp, cacheReply, extraction, store, pc, params, locals, result, calls>>

RateLimitNext == \E c \in Callers : RateLimitGet(c) \/ RateLimitPut(c)

RateLimitSpec == RateLimitInit /\ [][RateLimitNext]_vars

(***************************************************************************)
(* ChromeStorage (extension): the list kept under 'history' in               *)
(* chrome.storage.local, and calls of saveToHistory, deleteFromHistory and   *)
(* clearHistory that may overlap.  A page url is a number; an entry carries  *)
(* its url and the number of the write that inserted it (title, audioUrl and *)
(* createdAt are stored and never looked at).                                *)
(***************************************************************************)
\* calls that may be in flight together, and calls made in one run
NumHistoryCallers == 2
MaxHistoryCalls == 3

\* history.slice(0, 20)
HistoryLimit == 20

HistoryCallers == 1..NumHistoryCallers

\* the lists found in storage when the run starts: n entries saved one after
\* the other, the page n last
StoredLengths == {0, 19, 20}
StoredHistory(n) == [i \in 1..n |-> [url |-> n + 1 - i, saved |-> n + 1 - i]]

\* the pages the calls are about
CalledUrls == {1, 21}

\* history.some(item => item.url === podcast.url), always false in the variant
ExistsInHistoryNever(history, u) == FALSE

\* history.some(item => item.url === podcast.url)
ExistsInHistory(history, u) == \E i \in 1..Len(history) : history[i].url = u

\* history.unshift({ url, ... }); history.slice(0, 20)
UnshiftAndTrim(history, item) ==
    LET longer == <<item>> \o history
    IN  SubSeq(longer, 1, IF Len(longer) < HistoryLimit THEN Len(longer) ELSE HistoryLimit)

\* history.filter(item => item.url !== url)
FilterOut(history, u) == SelectSeq(history, LAMBDA item : item.url # u)

LocalHistoryInit ==
    /\ InitIdle
    /\ \E n \in StoredLengths :
        unit = [of |-> "ChromeStorage",
                history |-> StoredHistory(n),                       \* chrome.storage.local 'history'
                writes |-> n,                                       \* writes that inserted an entry
                started |-> 0,                                      \* calls made so far
                at |-> [c \in HistoryCallers |-> "idle"],           \* the await a call is at
                url |-> [c \in HistoryCallers |-> 0],               \* its argument
                local |-> [c \in HistoryCallers |-> <<>>],          \* its local history
                returned |-> [c \in HistoryCallers |-> <<>>]]       \* what its last call resolved to

\* saveToHistory up to the set: the list is read, and the call returns it
\* at once when it holds the url
saveToHistoryRead(c, u) ==
    /\ unit.of = "ChromeStorage" /\ unit.at[c] = "idle" /\ unit.started < MaxHistoryCalls
    /\ unit' = IF ExistsInHistory(unit.history, u)
               THEN [unit EXCEPT !.started = unit.started + 1, !.url[c] = u,
                                 !.local[c] = <<>>, !.returned[c] = unit.history]
               ELSE [unit EXCEPT !.started = unit.started + 1, !.url[c] = u, !.at[c] = "save",
                                 !.local[c] = unit.history]
    /\ UNCHANGED <<env, dbUp, cacheReply, extraction, store, pc, params, locals, result, calls>>

\* chrome.storage.local.set({ history: trimmedHistory })
saveToHistoryWrite(c) ==
    /\ unit.of = "ChromeStorage" /\ unit.at[c] = "save"
    /\ LET trimmedHistory ==
               UnshiftAndTrim(unit.local[c], [url |-> unit.url[c], saved |-> unit.writes + 1])
       IN  unit' = [unit EXCEPT !.history = trimmedHistory, !.writes = unit.writes + 1,
                                !.at[c] = "idle", !.local[c] = <<>>, !.returned[c] = trimmedHistory]
    /\ UNCHANGED <<env, dbUp, cacheReply, extraction, store, pc, params, locals, result, calls>>

\* deleteFromHistory up to the set: the list is read and filtered
deleteFromHistoryRead(c, u) ==
    /\ unit.of = "ChromeStorage" /\ unit.at[c] = "idle" /\ unit.started < MaxHistoryCalls
    /\ unit' = [unit EXCEPT !.started = unit.started + 1, !.url[c] = u, !.at[c] = "delete",
                            !.local[c] = FilterOut(unit.history, u)]
    /\ UNCHANGED <<env, dbUp, cacheReply, extraction, store, pc, params, locals, result, calls>>

\* chrome.storage.local.set({ history: updatedHistory })
deleteFromHistoryWrite(c) ==
    /\ unit.of = "ChromeStorage" /\ unit.at[c] = "delete"
    /\ unit' = [unit EXCEPT !.history = unit.local[c], !.at[c] = "idle", !.local[c] = <<>>,
                            !.returned[c] = unit.local[c]]
    /\ UNCHANGED <<env, dbUp, cacheReply, extraction, store, pc, params, locals, result, calls>>

\* clearHistory: chrome.storage.local.set({ history: [] })
clearHistory(c) ==
    /\ unit.of = "ChromeStorage" /\ unit.at[c] = "idle" /\ unit.started < MaxHistoryCalls
    /\ unit' = [unit EXCEPT !.started = unit.started + 1, !.history = <<>>, !.url[c] = 0,
                            !.returned[c] = <<>>]
    /\ UNCHANGED <<env, dbUp, cacheReply, extraction, store, pc, params, locals, result, calls>>

LocalHistoryNext ==
    \E c \in HistoryCallers :
        \/ \E u \in CalledUrls : saveToHistoryRead(c, u)
        \/ saveToHistoryWrite(c)
        \/ \E u \in CalledUrls : deleteFromHistoryRead(c, u)
        \/ deleteFromHistoryWrite(c)
        \/ clearHistory(c)

LocalHistorySpec == LocalHistoryInit /\ [][LocalHistoryNext]_vars

(***************************************************************************)
(* retryWithBackoff by itself: fn is a call that resolves or rejects; the    *)
(* k-th call resolves to the value k or rejects with the error k.            *)
(***************************************************************************)
\* the largest maxRetries argument
MaxRetriesArg == 4

\* the baseDelay arguments, in milliseconds
BaseDelays == {1, 500, 1000}

RetryInit ==
    /\ InitIdle
    /\ \E m \in 0..MaxRetriesArg, d \in BaseDelays :
        unit = [of |-> "retryWithBackoff", maxRetries |-> m, baseDelay |-> d,
                at |-> "loop",          \* "loop", "sleep" or "done"
                i |-> 0,                \* the loop variable
                tried |-> <<>>,         \* how each call of fn ended so far
                slept |-> <<>>,         \* the delays slept so far
                lastError |-> 0,        \* 0 for undefined
                outcome |-> "none", value |-> 0, error |-> 0]

\* variant: a delay follows every failed attempt, the last included
SleepsAfterEvery(i, maxRetries) == i < maxRetries

\* if (i < maxRetries - 1)
SleepsAfter(i, maxRetries) == i < maxRetries - 1

\* baseDelay * Math.pow(2, i)
BackoffDelay(baseDelay, i) == baseDelay * 2^i

\* one pass of the loop body: return await fn(), or the catch block
RetryAttempt ==
    /\ unit.of = "retryWithBackoff" /\ unit.at = "loop" /\ unit.i < unit.maxRetries
    /\ \E resolves \in BOOLEAN :
        LET k == Len(unit.tried) + 1
        IN  unit' = IF resolves
                    THEN [unit EXCEPT !.tried = Append(unit.tried, "resolved"), !.at = "done",
                                      !.outcome = "returned", !.value = k]
                    ELSE IF SleepsAfter(unit.i, unit.maxRetries)
                    THEN [unit EXCEPT !.tried = Append(unit.tried, "rejected"), !.lastError = k,
                                      !.at = "sleep"]
                    ELSE [unit EXCEPT !.tried = Append(unit.tried, "rejected"), !.lastError = k,
                                      !.i = unit.i + 1]
    /\ UNCHANGED <<env, dbUp, cacheReply, extraction, store, pc, params, locals, result, calls>>

\* await sleep(delay), then i++
RetrySleep ==
    /\ unit.of = "retryWithBackoff" /\ unit.at = "sleep"
    /\ unit' = [unit EXCEPT !.slept = Append(unit.slept, BackoffDelay(unit.baseDelay, unit.i)),
                            !.i = unit.i + 1, !.at = "loop"]
    /\ UNCHANGED <<env, dbUp, cacheReply, extraction, store, pc, params, locals, result, calls>>

\* throw lastError, after the loop
RetryThrow ==
    /\ unit.of = "retryWithBackoff" /\ unit.at = "loop" /\ unit.i >= unit.maxRetries
    /\ unit' = [unit EXCEPT !.at = "done", !.outcome = "raised", !.error = unit.lastError]
    /\ UNCHANGED <<env, dbUp, cacheReply, extraction, store, pc, params, locals, result, calls>>

RetryNext == RetryAttempt \/ RetrySleep \/ RetryThrow

RetrySpec == RetryInit /\ [][RetryNext]_vars

(***************************************************************************)
(* Properties                                                              *)
(***************************************************************************)

\* C1  Cache-hit short-circuit.  When the lookup of a request is answered and
\* a completed record for its url is in the store, the request ends in that
\* very step with the stored record as a cached success, and no page fetch,
\* title derivation, summarization, speech synthesis, put or save is ever
\* invoked by it; this holds for generatePodcastSync and PodcastWorkflow.run
\* alike.  A finished request invokes nothing more.
C1_CacheHitShortCircuit ==
    [][\A r \in Reqs :
        /\ ( /\ pc[r] = "check" /\ pc'[r] # "check"
             /\ env.db /\ dbUp
             /\ \E i \in 1..Len(podcasts) :
                    podcasts[i].url = url[r] /\ podcasts[i].status = "completed" )
            => /\ pc'[r] = "done"
               /\ result'[r].state = "success" /\ result'[r].cached
               /\ \E i \in 1..Len(podcasts) :
                      podcasts[i].url = url[r] /\ result'[r].data = podcasts[i]
               /\ \A k \in Steps \ {"lookup"} : calls'[r][k] = 0
        /\ pc[r] = "done" => (pc'[r] = "done" /\ calls'[r] = calls[r] /\ result'[r] = result[r])
    ]_vars

\* a workflow run has returned a stored record having invoked the lookup only
C1_Witness ==
    \E r \in Reqs :
        /\ pc[r] = "done" /\ entry[r] = "workflow"
        /\ result[r].state = "success" /\ result[r].cached
        /\ \E i \in 1..Len(podcasts) : result[r].data = podcasts[i]
        /\ calls[r] = [k \in Steps |-> IF k = "lookup" THEN 1 ELSE 0]

\* C2  Swallowed persistence failure, as stated: when extraction,
\* summarization, synthesis and the put have succeeded and the save of the
\* record fails (the statement raises or reports failure), the request still
\* returns success and a processing_logs row for its url is recorded.
C2_SwallowedSaveFailureIsLogged ==
    [][\A r \in Reqs :
        ( /\ pc[r] = "save" /\ pc'[r] = "done"
          /\ env.db
          /\ ~savePodcast(podcasts, SyncPodcastData(r), dbUp).success )
        => /\ result'[r].state = "success"
           /\ \E i \in 1..Len(processingLogs') : processingLogs'[i].url = url[r]
    ]_vars

\* C3  A request that returns a failure inserts no record: the step that
\* fails leaves table podcasts as it was and the request has never invoked
\* the save; every change of the table is the save of a request that returns
\* success in that step; no row has status failed.
C3_FailedRequestInsertsNothing ==
    [][/\ \A r \in Reqs :
            (pc[r] # "done" /\ pc'[r] = "done" /\ result'[r].state = "failure")
            => (podcasts' = podcasts /\ calls'[r]["save"] = 0)
       /\ podcasts' # podcasts
            => \E q \in Reqs : /\ calls'[q]["save"] = calls[q]["save"] + 1
                               /\ result'[q].state = "success"
       /\ \A i \in 1..Len(podcasts') : podcasts'[i].status # "failed"
    ]_vars

\* a request has failed at the put while the record of another request is stored
C3_Witness ==
    \E r \in Reqs :
        /\ result[r].state = "failure" /\ calls[r]["put"] = 1
        /\ Len(podcasts) = 1

\* C4  Failure logging, as stated: whenever a request returns a failure, a
\* processing_logs row carrying its url has been written by then.
C4_FailureIsLogged ==
    [][\A r \in Reqs :
        (pc[r] # "done" /\ pc'[r] = "done" /\ result'[r].state = "failure")
        => \E i \in 1..Len(processingLogs') :
               processingLogs'[i].url = url[r] /\ processingLogs'[i].error_type # ""
    ]_vars

\* C5  Every row of table podcasts has status completed and the bucket holds
\* an object under the row's audio_file_name.
C5_RecordsCompletedWithBlob ==
    \A i \in 1..Len(podcasts) :
        /\ podcasts[i].status = "completed"
        /\ podcasts[i].audio_file_name \in DOMAIN bucket

\* two records are stored, each with its own object
C5_Witness ==
    /\ Len(podcasts) = 2
    /\ podcasts[1].audio_file_name # podcasts[2].audio_file_name
    /\ {podcasts[1].audio_file_name, podcasts[2].audio_file_name} \subseteq DOMAIN bucket

\* C6  No two rows of table podcasts have the same url and no two have the
\* same cache_key, whatever the interleaving of the requests.
C6_UrlAndCacheKeyUnique ==
    \A i, j \in 1..Len(podcasts) :
        i # j => /\ podcasts[i].url # podcasts[j].url
                 /\ podcasts[i].cache_key # podcasts[j].cache_key

\* two requests for different urls with the same cache key have both run the
\* pipeline up to the save, and one record is stored
C6_Witness ==
    \E r, q \in Reqs :
        /\ r # q
        /\ calls[r]["save"] = 1 /\ calls[q]["save"] = 1
        /\ result[r].state = "success" /\ result[q].state = "success"
        /\ result[r].data.url # result[q].data.url
        /\ result[r].data.cache_key = result[q].data.cache_key
        /\ Len(podcasts) = 1

\* C7  Benign duplicate insert.  Every request that reaches the save returns
\* success without an error; when the store answers and a record for the url
\* is already there (the request lost a race on its url), the table is left
\* as it is and holds exactly one record for that url; when the store answers
\* and neither the url nor its cache key is taken, the record is inserted.
C7_DuplicateInsertIsBenign ==
    [][\A r \in Reqs :
        (pc[r] = "save" /\ pc'[r] = "done")
        => LET sameUrl(rows) == {i \in 1..Len(rows) : rows[i].url = url[r]}
               sameKey(rows) == {i \in 1..Len(rows) : rows[i].cache_key = generateCacheKey(url[r])}
           IN  /\ result'[r].state = "success"
               /\ result'[r].error = ""
               /\ result'[r].data.url = url[r]
               /\ (env.db /\ dbUp /\ sameUrl(podcasts) # {})
                    => (podcasts' = podcasts /\ Cardinality(sameUrl(podcasts')) = 1)
               /\ (env.db /\ dbUp /\ sameUrl(podcasts) = {} /\ sameKey(podcasts) = {})
                    => (Len(podcasts') = Len(podcasts) + 1 /\ Cardinality(sameUrl(podcasts')) = 1)
    ]_vars

\* two requests for the same url have both missed the cache, run the pipeline
\* and reached the save; both have returned success and one record is stored
C7_Witness ==
    \E r, q \in Reqs :
        /\ r # q
        /\ calls[r]["save"] = 1 /\ calls[q]["save"] = 1
        /\ calls[r]["lookup"] = 1 /\ calls[q]["lookup"] = 1
        /\ result[r].state = "success" /\ result[q].state = "success"
        /\ ~result[r].cached /\ ~result[q].cached
        /\ result[r].data.url = result[q].data.url
        /\ Cardinality({i \in 1..Len(podcasts) : podcasts[i].url = result[r].data.url}) = 1

\* C8  Step order.  Within a request the page fetch and the title derivation
\* are invoked only after the lookup (where a store is bound) and before any
\* result; summarization only once the fetch has delivered enough text and
\* the title is derived; synthesis only after summarization has delivered a
\* script; the put only after synthesis has delivered audio; the save only
\* after the put has stored the object.  A step that fails ends the request
\* in that step, and a request that has a result invokes nothing more.
C8_StepOrder ==
    [][\A r \in Reqs :
        LET invoked(k) == calls'[r][k] > calls[r][k]
        IN  /\ (invoked("fetch") \/ invoked("title"))
                => /\ calls[r]["lookup"] = 1 \/ ~env.db
                   /\ result[r].state = "none"
                   /\ calls[r]["summarize"] = 0
            /\ invoked("summarize")
                => /\ calls[r]["fetch"] = 1 /\ calls[r]["title"] = 1
                   /\ content[r].len >= MinContentLength
                   /\ title[r] # <<>>
                   /\ calls[r]["tts"] = 0
            /\ invoked("tts")
                => /\ calls[r]["summarize"] = 1
                   /\ summary[r].len >= MinSummaryLength
                   /\ calls[r]["put"] = 0
            /\ invoked("put")
                => /\ calls[r]["tts"] = 1
                   /\ audioBuffer[r].byteLength > 0
                   /\ calls[r]["save"] = 0
            /\ invoked("save")
                => /\ calls[r]["put"] = 1
                   /\ AudioFileName(url[r]) \in DOMAIN bucket
            /\ (result[r].state = "none" /\ result'[r].state = "failure") => pc'[r] = "done"
            /\ result[r].state # "none" => (calls'[r] = calls[r] /\ pc'[r] = pc[r])
    ]_vars

\* a request has gone through every step, each invoked once, and returned success
C8_Witness ==
    \E r \in Reqs :
        /\ \A k \in Steps : calls[r][k] = 1
        /\ result[r].state = "success" /\ ~result[r].cached

C11_FailureCarriesStepTag ==
    \A r \in Reqs :
        result[r].state = "failure"
        => ResultKeys(result[r]) \ {"success", "error"} # {}

(***************************************************************************)
(* Progress: every awaited collaborator call eventually returns or raises, *)
(* so a request that can take a step eventually takes one.                 *)
(***************************************************************************)
Step(r) ==
    \/ SyncCheckDatabase(r)
    \/ SyncScrape(r)
    \/ SyncSummarize(r)
    \/ SyncGenerateAudio(r)
    \/ SyncStoreAudio(r)
    \/ SyncSave(r)
    \/ WfCheckDatabase(r)
    \/ WfScrapeWebpage(r)
    \/ WfExtractTitle(r)
    \/ WfSummarizeContent(r)
    \/ WfGenerateAudio(r)
    \/ WfStoreAudio(r)

FairSpec == Spec /\ \A r \in Reqs : WF_vars(Step(r))

\* C12  Every started request returns: provided each collaborator call
\* returns or raises, a request that has started eventually is done; a
\* request that is done holds a result that is a success or a failure, a
\* request under way holds none, and a result once returned never changes
\* (one result per request, nothing raised to the caller), whether or not
\* the store is bound or answers.
C12_RunsToCompletion ==
    /\ \A r \in Reqs : [](pc[r] # "idle" => <>(pc[r] = "done"))
    /\ [](\A r \in Reqs :
            /\ pc[r] = "done" => result[r].state \in {"success", "failure"}
            /\ pc[r] # "done" => result[r].state = "none")
    /\ [][\A r \in Reqs : pc[r] = "done" => (pc'[r] = "done" /\ result'[r] = result[r])]_vars

\* a request has returned a result although the store did not answer its lookup
C12_Witness ==
    \E r \in Reqs :
        /\ pc[r] = "done" /\ result[r].state = "success"
        /\ env.db /\ ~dbUp /\ calls[r]["lookup"] = 1 /\ calls[r]["save"] = 1
        /\ podcasts = <<>>

\* C13  A generate that ran the whole pipeline returns a record with status
\* completed, the length of the text the scrape step extracted, the length
\* of the script the summarizer returned, the byte length the synthesizer
\* returned and generateCacheKey(url) as its cache key; when the insert goes
\* through, the row added is that record; and results for the same url carry
\* the same cache key.
C13_RecordFields ==
    /\ [][\A r \in Reqs :
            (pc[r] = "save" /\ pc'[r] = "done" /\ result'[r].state = "success")
            => LET rec == result'[r].data
               IN  /\ ~result'[r].cached
                   /\ rec.url = url[r]
                   /\ rec.status = "completed"
                   /\ rec.content_length = content[r].len
                   /\ rec.summary_length = summary[r].len
                   /\ rec.audio_size_bytes = audioBuffer[r].byteLength
                   /\ rec.cache_key = generateCacheKey(url[r])
                   /\ podcasts' # podcasts
                      => podcasts' = Append(podcasts, [rec EXCEPT !.id = Len(podcasts) + 1])]_vars
    /\ [](\A r1, r2 \in Reqs :
            (/\ result[r1].state = "success" /\ result[r2].state = "success"
             /\ result[r1].data.url = result[r2].data.url)
            => result[r1].data.cache_key = result[r2].data.cache_key)

\* two requests for one url both ran the whole pipeline, and the record of
\* the first was inserted
C13_Witness ==
    \E r1, r2 \in Reqs :
        /\ r1 # r2
        /\ result[r1].state = "success" /\ ~result[r1].cached
        /\ result[r2].state = "success" /\ ~result[r2].cached
        /\ result[r1].data.url = result[r2].data.url
        /\ result[r1].data.content_length # result[r1].data.summary_length
        /\ \E i \in 1..Len(podcasts) : [podcasts[i] EXCEPT !.id = 0] = result[r1].data

C15_EntryPointsAgree ==
    \A r1, r2 \in Reqs :
        (/\ entry[r1] = "sync" /\ entry[r2] = "workflow"
         /\ pc[r1] = pc[r2] /\ pc[r1] \in {"check", "summarize", "audio", "store"}
         /\ url[r1] = url[r2]
         /\ content[r1] = content[r2] /\ title[r1] = title[r2]
         /\ summary[r1] = summary[r2] /\ audioBuffer[r1] = audioBuffer[r2])
        => \A p \in {"scrape", "summarize", "audio", "store", "save", "done"} :
           \A outcome \in {"none", "success", "failure"} :
             (ENABLED (Step(r1) /\ pc'[r1] = p /\ result'[r1].state = outcome))
             <=> (ENABLED (Step(r2) /\ pc'[r2] = p /\ result'[r2].state = outcome))

\* C16  Requests for different urls do not affect each other: when a request
\* saves while the store answers and no record for its own url is stored
\* (nothing but requests for other urls ran beside it), its record is
\* inserted and the blob under its audio file name is the one it put, as when
\* it runs alone; this for every pair of urls, equal cache keys included.
C16_DistinctUrlsIndependent ==
    [][\A r \in Reqs :
        (/\ pc[r] = "save" /\ pc'[r] = "done"
         /\ env.db /\ dbUp
         /\ \A i \in 1..Len(podcasts) : podcasts[i].url # url[r])
        => /\ \E i \in 1..Len(podcasts') :
                [podcasts'[i] EXCEPT !.id = 0] = result'[r].data
           /\ bucket[result'[r].data.audio_file_name].url = url[r]
    ]_vars

\* C17  checkCache is read-only and never fails on the store: a /check-cache
\* call for a url leaves the tables and the bucket as they are and answers
\* with success; while the store is bound and answers, it reports the stored
\* record exactly when a record with that url exists, and that record is the
\* one it reports; while the store is not bound or does not answer, it reports
\* 'not cached'.
C17_CheckCacheReadOnly ==
    [][\A u \in Urls :
        CheckCache(u)
        => /\ UNCHANGED <<podcasts, bucket, processingLogs>>
           /\ cacheReply'.success /\ cacheReply'.error = ""
           /\ (env.db /\ dbUp)
                => /\ cacheReply'.cached <=> \E i \in 1..Len(podcasts) : podcasts[i].url = u
                   /\ cacheReply'.cached
                        => /\ cacheReply'.result.url = u
                           /\ \E i \in 1..Len(podcasts) : podcasts[i] = cacheReply'.result
           /\ (~env.db \/ ~dbUp) => ~cacheReply'.cached
    ]_vars

\* /check-cache has reported a stored record, and once more for a url whose
\* record is stored while the store does not answer
C17_Witness ==
    /\ cacheReply.success /\ ~cacheReply.cached /\ cacheReply.url # <<>>
    /\ env.db /\ ~dbUp
    /\ \E i \in 1..Len(podcasts) : podcasts[i].url = cacheReply.url

\* C18  Records are immutable: no step of any generate request and no
\* /check-cache call changes a field of a stored record or removes one (rows
\* are only ever added at the end of the table), and a generate that ends in
\* a cache hit writes nothing to the tables or to the bucket.
C18_RecordsImmutable ==
    [][/\ Len(podcasts') >= Len(podcasts)
       /\ \A i \in 1..Len(podcasts) : podcasts'[i] = podcasts[i]
       /\ \A r \in Reqs :
            (pc[r] = "check" /\ pc'[r] = "done" /\ result'[r].cached)
            => UNCHANGED <<podcasts, bucket, processingLogs>>
    ]_vars

\* a request that lost the race on its url has saved after the record of the
\* winner was stored, and /check-cache has reported that record
C18_Witness ==
    \E r \in Reqs :
        /\ result[r].state = "success" /\ ~result[r].cached /\ calls[r]["save"] = 1
        /\ \E i \in 1..Len(podcasts) :
            /\ podcasts[i].url = result[r].data.url
            /\ podcasts[i].user_id # userId[r]
            /\ cacheReply.cached /\ cacheReply.result = podcasts[i]

\* C19  Truncation boundary.  Of a cleaned text of more than 1000 characters
\* scrapeWebpage returns the prefix that ends with the last period among its
\* first 1000 characters when the index of that period (counted from 0, as
\* lastIndexOf does) is greater than 800, and its first 1000 characters
\* otherwise; a text of at most 1000 characters is returned as it is; and the
\* truncations applied again by generatePodcastSync and by summarizeArticle
\* leave the returned text as it is.
C19_TruncationBoundary ==
    [][/\ (extraction.stage = "fetched" /\ extraction'.ok)
            => LET t == extraction.page.text
                   out == extraction'.text
                   early == {i \in t.periods : i < ContentLimit}
               IN  /\ t.len <= ContentLimit => out = t
                   /\ (t.len > ContentLimit /\ \E i \in early : i > ContentBoundary)
                        => /\ out.len \in {i + 1 : i \in early}
                           /\ \A i \in early : i < out.len
                           /\ out.periods = early
                   /\ (t.len > ContentLimit /\ \A i \in early : i <= ContentBoundary)
                        => (out.len = ContentLimit /\ out.periods = early)
       /\ extraction.stage \in {"extracted", "orchestrated"}
            => extraction'.text = extraction.text
    ]_vars

\* a text of 1200 characters with periods at indexes 801 and 1100 was cut to
\* 802 characters, and both later truncations have been applied to it
C19_Witness ==
    /\ extraction.stage = "summarized"
    /\ extraction.page.text = [len |-> 1200, periods |-> {801, 1100}]
    /\ extraction.text = [len |-> 802, periods |-> {801}]

\* C20  Minimum-content rejection.  scrapeWebpage fails, naming insufficient
\* content, whenever the response body or the cleaned text has fewer than 100
\* characters; it succeeds on a cleaned text of exactly 100 characters; and
\* every text it returns has at least 100 and at most 1000 characters.
C20_MinimumContent ==
    [][(extraction.stage = "fetched" /\ extraction.page.kind = "body")
        => LET p == extraction.page
           IN  /\ (p.htmlLen < 100 \/ p.text.len < 100)
                    => /\ ~extraction'.ok
                       /\ extraction'.error \in
                            {"Webpage returned empty or insufficient content",
                             "Not enough meaningful content found on the page"}
               /\ (p.htmlLen >= 100 /\ p.text.len = 100)
                    => (extraction'.ok /\ extraction'.text = p.text)
               /\ extraction'.ok
                    => (extraction'.text.len >= 100 /\ extraction'.text.len <= 1000)
    ]_vars

\* a page whose cleaned text has exactly 100 characters was extracted
C20_Witness ==
    /\ extraction.stage = "extracted" /\ extraction.ok
    /\ extraction.page.text.len = 100
    /\ extraction.text.len = 100

\* the title extractTitle has returned for a URL that parses: its host name
\* and whether its path has no segment
TitleOfHostOnly(u) ==
    LET parsed == ParseUrl(u)
    IN  parsed.ok /\ SplitNonEmpty(parsed.pathname, ChSlash, 1, <<>>) = <<>>

\* is title the name written with a capital first letter, hyphens and
\* underscores as spaces, and nothing else changed
IsTitleOfName(t, name) ==
    /\ Len(t) = Len(name)
    /\ t[1] = ToUpperCh(name[1])
    /\ \A k \in 1..Len(name) :
         ToLowerCh(t[k]) = (IF name[k] \in {ChHyphen, ChUnderscore} THEN ChSpace ELSE ToLowerCh(name[k]))

C22_ShortScriptNeverSynthesized ==
    /\ [](\A r \in Reqs : pc[r] \in {"audio", "store", "save"} => summary[r].len >= 50)
    /\ [][\A r \in Reqs :
            LET invoked(k) == calls'[r][k] > calls[r][k]
            IN  /\ (invoked("tts") \/ invoked("put") \/ invoked("save")) => summary[r].len >= 50
                /\ (invoked("summarize") /\ summary'[r].len < 50)
                    => /\ pc'[r] = "done" /\ result'[r].state = "failure"
                       /\ UNCHANGED <<podcasts, bucket, processingLogs>>
                       /\ calls'[r]["tts"] = 0 /\ calls'[r]["put"] = 0 /\ calls'[r]["save"] = 0
                /\ pc[r] = "done" => calls'[r] = calls[r]
       ]_vars

\* one request has failed at the text generation and invoked nothing after
\* it, another is at synthesis with a script of exactly 50 characters
C22_Witness ==
    \E r, q \in Reqs :
        /\ pc[r] = "done" /\ result[r].state = "failure"
        /\ calls[r]["summarize"] = 1 /\ calls[r]["tts"] = 0
        /\ pc[q] = "audio" /\ summary[q].len = 50

\* C23  No empty audio is stored or returned.  A synthesis step that ends
\* without audio (the credential is missing, the script is blank, the
\* text-to-speech request is rejected, answers with a non-success status or
\* with zero bytes) ends the request with a failure, leaves tables and bucket
\* as they are, and the request never puts or saves; without the credential
\* or with a blank script the text-to-speech request is not even sent.
\* Every object in the bucket, every audio size in a record and every audio
\* size in a success result is greater than zero.
C23_NoEmptyAudio ==
    /\ [](/\ \A k \in DOMAIN bucket : bucket[k].byteLength > 0
          /\ \A i \in 1..Len(podcasts) : podcasts[i].audio_size_bytes > 0
          /\ \A r \in Reqs : result[r].state = "success" => result[r].data.audio_size_bytes > 0
          /\ \A r \in Reqs : pc[r] \in {"store", "save"} => audioBuffer[r].byteLength > 0
          /\ \A e \in EnvConfigs : generateAudioPrecheck(NoText, e) # "")
    /\ [][\A r \in Reqs :
            (pc[r] = "audio" /\ pc'[r] # "audio")
            => /\ audioBuffer'[r].byteLength = 0
                  => /\ pc'[r] = "done" /\ result'[r].state = "failure"
                     /\ UNCHANGED <<podcasts, bucket, processingLogs>>
                     /\ calls'[r]["put"] = 0 /\ calls'[r]["save"] = 0
               /\ (~env.ttsKey \/ summary[r].len = 0)
                  => (audioBuffer'[r].byteLength = 0 /\ calls'[r]["tts"] = 0)
       ]_vars

\* one request failed at the text-to-speech request and put nothing, while
\* the audio of another is in the bucket
C23_Witness ==
    \E r \in Reqs :
        /\ pc[r] = "done" /\ result[r].state = "failure"
        /\ result[r].error = "Audio generation failed"
        /\ calls[r]["tts"] = 1 /\ calls[r]["put"] = 0
        /\ DOMAIN bucket # {}

\* C24  Pre-check timeout, as stated: when the wait for the HEAD request
\* expires, validateUrl gives up on the pre-check and returns the parsed URL;
\* an expired wait never makes it raise.
C24_TimeoutFallsThrough ==
    (unit.of = "validateUrl" /\ unit.head = "aborted") => unit.outcome = "returned"

\* C25  listByOwner, as stated: the list getUserHistory(userId, limit) returns
\* has at most limit entries, every entry is a record of that owner, the
\* entries are ordered newest first, and no record appears in it more than
\* once, however many accesses were recorded.
C25_HistoryListsEachRecordOnce ==
    (unit.of = "getUserHistory" /\ unit.limit > 0)
    => /\ Len(unit.results) <= unit.limit
       /\ \A k \in 1..Len(unit.results) : unit.results[k].userId = unit.userId
       /\ \A a, b \in 1..Len(unit.results) :
            a < b => /\ unit.results[a].createdAt >= unit.results[b].createdAt
                     /\ unit.results[a].id # unit.results[b].id

\* C26  Blob of a record, as stated: for every record in table podcasts the
\* object stored under its audio file name is the one put by the request
\* that saved the record (it carries that request's url and caller), after
\* concurrent requests for one url, after a re-run for a stored url and for
\* urls with equal cache keys alike.
C26_BlobBelongsToRecord ==
    \A i \in 1..Len(podcasts) :
        /\ podcasts[i].audio_file_name \in DOMAIN bucket
        /\ bucket[podcasts[i].audio_file_name].url = podcasts[i].url
        /\ bucket[podcasts[i].audio_file_name].userId = podcasts[i].user_id

\* C27  A failing cache lookup is a cache miss.  When a request leaves the
\* lookup step while the store is not bound or does not answer the query, it
\* goes on to the page fetch with no result set, and tables and bucket are
\* left as they are; this for generatePodcastSync and PodcastWorkflow.run,
\* and whether or not a record for the url is stored.  From there the step
\* that follows is the fetch of the page as after any miss.
C27_LookupFailureIsMiss ==
    /\ [][\A r \in Reqs :
            (pc[r] = "check" /\ pc'[r] # "check" /\ (~env.db \/ ~dbUp))
            => /\ pc'[r] = "scrape"
               /\ result'[r].state = "none"
               /\ url'[r] = url[r]
               /\ UNCHANGED <<podcasts, bucket, processingLogs>>
       ]_vars
    /\ [](\A r \in Reqs :
            (pc[r] = "scrape" /\ entry[r] = "sync")
            => ENABLED (SyncScrape(r) /\ pc'[r] = "summarize"))

\* a sync request goes on to the page fetch after a lookup the store did not
\* answer, although the record for its url is stored
C27_Witness ==
    \E r \in Reqs :
        /\ pc[r] = "scrape" /\ entry[r] = "sync" /\ calls[r]["lookup"] = 1
        /\ env.db /\ ~dbUp
        /\ \E i \in 1..Len(podcasts) : podcasts[i].url = url[r]

\* C28  Rate limit, as stated: however the concurrent calls of checkRateLimit
\* for one user and day interleave, at most limit of them return true.
C28_AtMostLimitAdmitted ==
    unit.of = "checkRateLimit"
    => Cardinality({c \in Callers : unit.outcome[c] = "true"}) <= DailyLimit

\* C29  Local history.  Whatever saveToHistory, deleteFromHistory and
\* clearHistory calls were made, one after the other or overlapping, the
\* stored list has at most 20 entries, no two of them with the same url, and
\* the entries stand in the order in which they were inserted, the latest
\* first; and a saveToHistory call for a url the list holds writes nothing:
\* the list stays as it is and the call returns it.
C29_LocalHistoryWellFormed ==
    /\ [](unit.of = "ChromeStorage"
          => /\ Len(unit.history) <= 20
             /\ \A a, b \in 1..Len(unit.history) :
                  a < b => /\ unit.history[a].url # unit.history[b].url
                           /\ unit.history[a].saved > unit.history[b].saved)
    /\ [][\A c \in HistoryCallers, u \in CalledUrls :
            (saveToHistoryRead(c, u) /\ \E i \in 1..Len(unit.history) : unit.history[i].url = u)
            => /\ unit'.history = unit.history
               /\ unit'.at[c] = "idle"
               /\ unit'.returned[c] = unit.history
       ]_vars

\* a list of 20 entries took a new page at its head and dropped its oldest
\* entry, while another call that read the list before that write is about to
\* write
C29_Witness ==
    /\ unit.of = "ChromeStorage"
    /\ Len(unit.history) = 20
    /\ unit.history[1].url = 21 /\ unit.history[20].url = 2
    /\ \E c \in HistoryCallers : unit.at[c] = "save" /\ Len(unit.local[c]) = 20 /\ unit.local[c][20].url = 1

\* C30  retryWithBackoff calls fn at most maxRetries times; it returns the
\* result of the first call that resolves and calls fn no more after it; the
\* delays it has slept are baseDelay * 2^i after the failed attempt i
\* (counted from 0) for every attempt but the last of the maxRetries, so
\* never after the last attempt and never after a success; and when
\* every attempt was rejected it raises the error of the last one.
C30_RetryWithBackoff ==
    unit.of = "retryWithBackoff"
    => LET n == Len(unit.tried)
           rejected == {k \in 1..n : unit.tried[k] = "rejected"}
       IN  /\ n <= unit.maxRetries
           /\ \A k \in 1..(n - 1) : unit.tried[k] = "rejected"
           /\ \A k \in 1..Len(unit.slept) : unit.slept[k] = unit.baseDelay * 2^(k - 1)
           /\ Len(unit.slept) <= Cardinality(rejected)
           /\ Len(unit.slept) < unit.maxRetries \/ unit.maxRetries = 0
           /\ unit.at = "loop" => Len(unit.slept) = Cardinality(rejected \ {unit.maxRetries})
           /\ unit.outcome = "returned"
                => /\ unit.tried[n] = "resolved" /\ unit.value = n
                   /\ Len(unit.slept) = n - 1
           /\ unit.outcome = "raised"
                => /\ n = unit.maxRetries /\ rejected = 1..n
                   /\ unit.error = n
                   /\ Len(unit.slept) = (IF n = 0 THEN 0 ELSE n - 1)
           /\ unit.at = "done" => ~ENABLED RetryNext

\* with maxRetries 4 and baseDelay 500 every attempt was rejected: 500, 1000
\* and 2000 ms were slept and the error of the fourth attempt was raised
C30_Witness ==
    /\ unit.of = "retryWithBackoff" /\ unit.maxRetries = 4 /\ unit.baseDelay = 500
    /\ unit.outcome = "raised" /\ unit.error = 4
    /\ unit.slept = <<500, 1000, 2000>>

====
